---- MODULE Spec2Model ----
(***************************************************************************)
(* A model of the Serialization-Tools decoder stack: the BinaryWindow and  *)
(* bookmark primitives (serialization_tools/ioutil.py, StructIO/           *)
(* structio.py), the variable-length layout codec (vstruct.py), and the    *)
(* Satisfactory property engine and structure registry (satisfactory/      *)
(* properties.py, satisfactory/structures.py).                             *)
(*                                                                         *)
(* Byte streams are sequences of naturals; a stream position p is 0-based, *)
(* so the byte at position p is stream[p + 1].  The byte source under      *)
(* every window is an io.BytesIO, as in the repository's tests.            *)
(***************************************************************************)
EXTENDS Integers, Sequences, FiniteSets, TLC

VARIABLES
    stream,   \* the bytes of the underlying byte source
    pos,      \* the underlying stream's position (stream.tell())
    win,      \* the BinaryWindow over the stream: [start, end]
    last,     \* what the last window operation did
    bm,       \* the bookmark / jump_to scope: saved position and how it ended
    pres,     \* result of Property.unpack on the stream
    wres,     \* result of WorldObjectProperties.unpack on the stream
    dres,     \* result of DynamicStructure.unpack on the stream
    acall,    \* the array decode requested: element type and count
    ares,     \* result of the whole-array decoder
    eres,     \* result of count successive bare-element decodes
    sname,    \* the struct type name handed to Structure.unpack_as_type
    sres,     \* result of Structure.unpack_as_type
    vfmt,     \* the layout format string handed to the layout codec
    vargs,    \* the values handed to pack / pack_stream
    vpk,      \* result of _VarLenStruct.pack
    vps,      \* result of VStruct.pack_stream, and the bytes it wrote
    vus,      \* result of _VarLenStruct.unpack_stream_size, and what it decoded
    vuf,      \* result of _VarLenStruct.unpack_from_size, and what it decoded
    vrt,      \* result of VStruct.unpack_stream on what pack_stream wrote
    scan,     \* CompressedSave.unpack: the chunk loop and the chunks found
    rb,       \* the read_body calls in progress, one per chunk
    body,     \* result of SaveBody.unpack, with the order of its steps
    call      \* a call of a helper function: its arguments and its result

vars == <<stream, pos, win, last, bm, pres, wres, dres, acall, ares, eres, sname, sres,
          vfmt, vargs, vpk, vps, vus, vuf, vrt, scan, rb, body, call>>

windowVars == <<win, last>>
propVars == <<pres, wres, dres>>
arrayVars == <<acall, ares, eres>>
structVars == <<sname, sres>>
codecVars == <<vfmt, vargs, vpk, vps, vus, vuf, vrt>>
saveVars == <<scan, rb, body, call>>

Min(a, b) == IF a < b THEN a ELSE b
Max(a, b) == IF a > b THEN a ELSE b

Idle == [done |-> FALSE]

\* the layout codec and the save container at rest
CodecIdle ==
    /\ vfmt = <<>> /\ vargs = <<>>
    /\ vpk = Idle /\ vps = Idle /\ vus = Idle /\ vuf = Idle /\ vrt = Idle
SaveIdle == scan = Idle /\ rb = <<>> /\ body = Idle /\ call = Idle

(***************************************************************************)
(* Bounds of the window and bookmark specifications.                       *)
(***************************************************************************)
StreamLen == 5      \* bytes in the stream under the window
MaxReadN == 3       \* read(n) is called with n in -MaxReadN .. MaxReadN
MaxOffset == 3      \* seek offsets range over -MaxOffset .. MaxOffset

(***************************************************************************)
(* io.BytesIO, the byte source under the windows.                          *)
(***************************************************************************)

\* BytesIO.read(n) at position p: a negative n reads to the end of the
\* stream; otherwise at most n bytes, fewer only at the end of the stream.
\* Returns the bytes and the new position.
StreamRead(s, p, n) ==
    LET avail == Max(0, Len(s) - p)
        k == IF n < 0 THEN avail ELSE Min(n, avail)
    IN  [data |-> SubSeq(s, p + 1, p + k), pos |-> p + k]

\* BytesIO.seek(offset, whence) at position p: whence 0 raises ValueError on
\* a negative target and leaves the position alone; whence 1 and 2 clamp a
\* negative target to 0; any other whence raises ValueError.  A target
\* beyond the end of the stream is accepted.
StreamSeek(s, p, offset, whence) ==
    CASE whence = 0 -> IF offset < 0 THEN [pos |-> p, err |-> TRUE]
                       ELSE [pos |-> offset, err |-> FALSE]
      [] whence = 1 -> [pos |-> Max(0, p + offset), err |-> FALSE]
      [] whence = 2 -> [pos |-> Max(0, Len(s) + offset), err |-> FALSE]
      [] OTHER -> [pos |-> p, err |-> TRUE]

(***************************************************************************)
(* BinaryWindow (serialization_tools/ioutil.py; StructIO/structio.py holds *)
(* the same code).                                                         *)
(***************************************************************************)

\* BinaryWindow.__remaining_bytes
RemainingBytes(w, p) == IF w.end - p >= 0 THEN w.end - p ELSE 0

\* BinaryWindow.__window_valid
WindowValid(w, p) == w.start <= p /\ p <= w.end

\* BinaryWindow.read(n): the number handed to the underlying read.
WindowReadArg(w, p, n) ==
    IF n = -1 THEN RemainingBytes(w, p)
    ELSE IF RemainingBytes(w, p) >= n THEN n
    ELSE RemainingBytes(w, p)

\* BinaryWindow.seek: the underlying seek, then the validity check, which
\* raises with the position already moved.
WindowSeekResult(s, w, p, offset, whence) ==
    LET r == CASE whence = 0 -> StreamSeek(s, p, w.start + offset, 0)
               [] whence = 1 -> StreamSeek(s, p, offset, 1)
               [] whence = 2 -> StreamSeek(s, p, w.end - offset, 0)
               [] OTHER -> StreamSeek(s, p, offset, whence)
    IN  IF r.err THEN [pos |-> r.pos, err |-> "stream"]
        ELSE IF ~WindowValid(w, r.pos) THEN [pos |-> r.pos, err |-> "invalid"]
        ELSE [pos |-> r.pos, err |-> "none"]

WindowInit ==
    /\ stream = [i \in 1..StreamLen |-> i]
    /\ win \in {[start |-> a, end |-> b] : a \in 0..StreamLen, b \in 0..StreamLen}
    /\ win.start <= win.end
    /\ pos \in win.start..win.end
    /\ last = [op |-> "init", n |-> 0, from |-> pos, data |-> <<>>, err |-> "none"]
    /\ bm = Idle
    /\ pres = Idle /\ wres = Idle /\ dres = Idle
    /\ acall = Idle /\ ares = Idle /\ eres = Idle
    /\ sname = <<>> /\ sres = Idle
    /\ CodecIdle /\ SaveIdle

\* window.read(n)
WindowRead(n) ==
    LET r == StreamRead(stream, pos, WindowReadArg(win, pos, n))
    IN  /\ pos' = r.pos
        /\ last' = [op |-> "read", n |-> n, from |-> pos, data |-> r.data, err |-> "none"]
        /\ UNCHANGED <<stream, win, bm, propVars, arrayVars, structVars, codecVars, saveVars>>

\* window.seek(offset, whence)
WindowSeek(offset, whence) ==
    LET r == WindowSeekResult(stream, win, pos, offset, whence)
    IN  /\ r.pos <= StreamLen + MaxOffset
        /\ pos' = r.pos
        /\ last' = [op |-> "seek", n |-> offset, from |-> pos, data |-> <<>>, err |-> r.err]
        /\ UNCHANGED <<stream, win, bm, propVars, arrayVars, structVars, codecVars, saveVars>>

WindowNext ==
    \/ \E n \in (0 - MaxReadN)..MaxReadN : WindowRead(n)
    \/ \E offset \in (0 - MaxOffset)..MaxOffset, whence \in 0..3 : WindowSeek(offset, whence)

SpecWindow == WindowInit /\ [][WindowNext]_vars

----------------------------------------------------------------------------
\* C1: under a BinaryWindow whose position starts inside its bounds, the
\* underlying position p satisfies start <= p <= end after every read and
\* every seek, rejected seeks included.
C1_PositionInsideWindow == win.start <= pos /\ pos <= win.end

\* C2: read(n) from a position inside the window returns exactly n bytes
\* when 0 <= n <= end - pos and the end - pos remaining bytes for every
\* other n, all of them at offsets in [pos, end).
C2_ReadStaysInWindow ==
    (last.op = "read" /\ WindowValid(win, last.from)) =>
        LET rem == win.end - last.from
            want == IF 0 <= last.n /\ last.n <= rem THEN last.n ELSE rem
        IN  /\ Len(last.data) = want
            /\ pos <= win.end
            /\ \A i \in 1..Len(last.data) :
                   last.data[i] = stream[last.from + i] /\ last.from + i <= win.end

(***************************************************************************)
(* Scoped position save/restore: StructIO.bookmark (StructIO/structio.py)  *)
(* and Ptr.stream_jump_to (serialization_tools/ioutil.py).  Both are       *)
(* generator context managers of the shape                                 *)
(*     prev = stream.tell(); [seek]; yield; stream.seek(prev)              *)
(* with no try/finally: an exception raised in the with-body is rethrown   *)
(* at the yield and the statement after it never runs.                     *)
(***************************************************************************)

BookmarkInit ==
    /\ stream = [i \in 1..StreamLen |-> i]
    /\ pos \in 0..StreamLen
    /\ win = [start |-> 0, end |-> StreamLen]
    /\ last = [op |-> "init", n |-> 0, from |-> pos, data |-> <<>>, err |-> "none"]
    /\ bm = [state |-> "idle", kind |-> "none", saved |-> 0, exit |-> "none"]
    /\ pres = Idle /\ wres = Idle /\ dres = Idle
    /\ acall = Idle /\ ares = Idle /\ eres = Idle
    /\ sname = <<>> /\ sres = Idle
    /\ CodecIdle /\ SaveIdle

\* with reader.bookmark(): -- pos = self.stream.tell(), then the body runs
BookmarkEnter ==
    /\ bm.state # "active"
    /\ bm' = [state |-> "active", kind |-> "bookmark", saved |-> pos, exit |-> "none"]
    /\ UNCHANGED <<stream, pos, windowVars, propVars, arrayVars, structVars, codecVars, saveVars>>

\* with ptr.stream_jump_to(stream): -- prev = stream.tell(), then
\* stream.seek(offset, whence); a seek that raises leaves before the body
JumpEnter(offset, whence) ==
    LET r == StreamSeek(stream, pos, offset, whence)
    IN  /\ bm.state # "active"
        /\ r.pos <= StreamLen + MaxOffset
        /\ pos' = r.pos
        /\ bm' = IF r.err
                 THEN [state |-> "exited", kind |-> "jump", saved |-> pos, exit |-> "exception"]
                 ELSE [state |-> "active", kind |-> "jump", saved |-> pos, exit |-> "none"]
        /\ UNCHANGED <<stream, windowVars, propVars, arrayVars, structVars, codecVars, saveVars>>

\* a read in the body: stream.read(n), n >= 0
ScopeRead(n) ==
    /\ bm.state = "active"
    /\ pos' = StreamRead(stream, pos, n).pos
    /\ UNCHANGED <<stream, bm, windowVars, propVars, arrayVars, structVars, codecVars, saveVars>>

\* a seek in the body; a seek that raises (ValueError) ends the scope by
\* exception
ScopeSeek(offset, whence) ==
    LET r == StreamSeek(stream, pos, offset, whence)
    IN  /\ bm.state = "active"
        /\ r.pos <= StreamLen + MaxOffset
        /\ pos' = r.pos
        /\ bm' = IF r.err THEN [bm EXCEPT !.state = "exited", !.exit = "exception"] ELSE bm
        /\ UNCHANGED <<stream, windowVars, propVars, arrayVars, structVars, codecVars, saveVars>>

\* StructIO.unpack(layout) in the body: reads layout.size bytes, and
\* layout.unpack raises struct.error on a short buffer (a decode failure),
\* which ends the scope by exception
ScopeUnpack(size) ==
    LET r == StreamRead(stream, pos, size)
    IN  /\ bm.state = "active"
        /\ pos' = r.pos
        /\ bm' = IF Len(r.data) # size
                 THEN [bm EXCEPT !.state = "exited", !.exit = "exception"]
                 ELSE bm
        /\ UNCHANGED <<stream, windowVars, propVars, arrayVars, structVars, codecVars, saveVars>>

\* the body completes: the generator resumes after the yield and runs
\* stream.seek(saved)
ScopeExit ==
    /\ bm.state = "active"
    /\ pos' = StreamSeek(stream, pos, bm.saved, 0).pos
    /\ bm' = [bm EXCEPT !.state = "exited", !.exit = "normal"]
    /\ UNCHANGED <<stream, windowVars, propVars, arrayVars, structVars, codecVars, saveVars>>

BookmarkNext ==
    \/ BookmarkEnter
    \/ \E offset \in (0 - MaxOffset)..MaxOffset, whence \in 0..2 : JumpEnter(offset, whence)
    \/ \E n \in 0..MaxReadN : ScopeRead(n)
    \/ \E offset \in (0 - MaxOffset)..MaxOffset, whence \in 0..2 : ScopeSeek(offset, whence)
    \/ \E size \in 1..MaxReadN : ScopeUnpack(size)
    \/ ScopeExit

SpecBookmark == BookmarkInit /\ [][BookmarkNext]_vars

----------------------------------------------------------------------------
\* C3: the position of a stream on leaving a bookmark scope (StructIO.bookmark,
\* Ptr.stream_jump_to) equals its position on entering it, on every exit
\* path: normal completion and an exception raised inside the scope.
C3_ScopeRestoresPosition == bm.state = "exited" => pos = bm.saved

(***************************************************************************)
(* Text constants: Python strings are modelled as sequences of character   *)
(* codes (ASCII).                                                          *)
(***************************************************************************)
\* PropertyHeader.NONE_PROPERTY_NAME = "None"
NONE_PROPERTY_NAME == <<78, 111, 110, 101>>

\* class PropertyType(Enum): member name |-> value
PropertyType ==
    [ Array |-> <<65, 114, 114, 97, 121, 80, 114, 111, 112, 101, 114, 116, 121>>,
      Float |-> <<70, 108, 111, 97, 116, 80, 114, 111, 112, 101, 114, 116, 121>>,
      Int |-> <<73, 110, 116, 80, 114, 111, 112, 101, 114, 116, 121>>,
      Byte |-> <<66, 121, 116, 101, 80, 114, 111, 112, 101, 114, 116, 121>>,
      Enum |-> <<69, 110, 117, 109, 80, 114, 111, 112, 101, 114, 116, 121>>,
      Bool |-> <<66, 111, 111, 108, 80, 114, 111, 112, 101, 114, 116, 121>>,
      String |-> <<83, 116, 114, 80, 114, 111, 112, 101, 114, 116, 121>>,
      Name |-> <<78, 97, 109, 101, 80, 114, 111, 112, 101, 114, 116, 121>>,
      Object |-> <<79, 98, 106, 101, 99, 116, 80, 114, 111, 112, 101, 114, 116, 121>>,
      Struct |-> <<83, 116, 114, 117, 99, 116, 80, 114, 111, 112, 101, 114, 116, 121>>,
      Map |-> <<77, 97, 112, 80, 114, 111, 112, 101, 114, 116, 121>>,
      Text |-> <<84, 101, 120, 116, 80, 114, 111, 112, 101, 114, 116, 121>>,
      Set |-> <<83, 101, 116, 80, 114, 111, 112, 101, 114, 116, 121>>,
      Int64 |-> <<73, 110, 116, 54, 52, 80, 114, 111, 112, 101, 114, 116, 121>>,
      Int8 |-> <<73, 110, 116, 56, 80, 114, 111, 112, 101, 114, 116, 121>>,
      Interface |-> <<73, 110, 116, 101, 114, 102, 97, 99, 101, 80, 114, 111, 112, 101, 114, 116, 121>> ]

\* structures._unpack_map: struct type name |-> decoder ("None" for the
\* entries whose value is None)
StructUnpackMap ==
    { <<<<66, 111, 120>>, "Box">>,
      <<<<67, 111, 108, 111, 114>>, "Color32">>,
      <<<<76, 105, 110, 101, 97, 114, 67, 111, 108, 111, 114>>, "Color">>,
      <<<<81, 117, 97, 116>>, "Vector4">>,
      <<<<86, 101, 99, 116, 111, 114>>, "Vector3">>,
      <<<<86, 101, 99, 116, 111, 114, 50, 68>>, "Vector2">>,
      <<<<82, 111, 116, 97, 116, 111, 114>>, "Vector3">>,
      <<<<73, 110, 118, 101, 110, 116, 111, 114, 121, 73, 116, 101, 109>>, "InventoryItem">>,
      <<<<70, 73, 78, 78, 101, 116, 119, 111, 114, 107, 84, 114, 97, 99, 101>>, "None">>,
      <<<<70, 108, 117, 105, 100, 66, 111, 120>>, "FluidBox">>,
      <<<<82, 97, 105, 108, 114, 111, 97, 100, 84, 114, 97, 99, 107, 80, 111, 115, 105, 116, 105, 111, 110>>, "None">>,
      <<<<71, 117, 105, 100>>, "GuidStructure">> }

\* True for the names that are keys of structures._unpack_map
StructRegistered(name) == \E e \in StructUnpackMap : e[1] = name
StructDecoder(name) == (CHOOSE e \in StructUnpackMap : e[1] = name)[2]

\* properties.property2class, as registered into properties._unpack_map by
\* __append_type_to_unpack: the types that have a full-property decoder
PropertyUnpackMap ==
    {"Struct", "Bool", "String", "Float", "Int64", "Int", "Enum", "Byte", "Map",
     "Object", "Array", "Name", "Interface"}

\* properties._unpack_element_map: the registered classes that define
\* unpack_element (Int and Float inherit NativeTypePropertyData's)
PropertyUnpackElementMap ==
    {"Struct", "Bool", "Float", "Int64", "Int", "Byte", "Object", "Interface"}

\* properties._unpack_array_map: the registered classes that define
\* unpack_array
PropertyUnpackArrayMap == {"Struct", "Bool", "Float", "Int64", "Int", "Byte"}

\* PropertyType(value): the member whose value is the string, or "" (the
\* constructor raises ValueError) when there is none
PropertyTypeOf(str) ==
    IF \E t \in DOMAIN PropertyType : PropertyType[t] = str
    THEN CHOOSE t \in DOMAIN PropertyType : PropertyType[t] = str
    ELSE ""

(***************************************************************************)
(* Decoder results.  ok: the call returned; none: it raised                *)
(* NonePropertyError (site: the call site that read the sentinel header);  *)
(* otherwise it raised err.  pos is the stream position the call left;     *)
(* short is set when a read inside the call returned fewer bytes than it   *)
(* asked for and the decoder went on with them.                            *)
(***************************************************************************)
Ok(p, v, sh) ==
    [ok |-> TRUE, none |-> FALSE, pos |-> p, val |-> v, short |-> sh,
     err |-> "none", site |-> "none", done |-> TRUE]
Fail(e, p) ==
    [ok |-> FALSE, none |-> FALSE, pos |-> p, val |-> <<>>, short |-> FALSE,
     err |-> e, site |-> "none", done |-> TRUE]
NoneError(p, site) ==
    [ok |-> FALSE, none |-> TRUE, pos |-> p, val |-> <<>>, short |-> FALSE,
     err |-> "NonePropertyError", site |-> site, done |-> TRUE]

\* shared.buffer_to_str: strips one trailing NUL, then decodes (the streams
\* of the model hold ASCII codes, which decode to themselves)
buffer_to_str(b) ==
    IF Len(b) > 0 /\ b[Len(b)] = 0 THEN SubSeq(b, 1, Len(b) - 1) ELSE b

\* struct 'I' and 'i': four bytes, little-endian
UInt32(b) == b[1] + 256 * b[2] + 65536 * b[3] + 16777216 * b[4]
Int32(b) ==
    IF b[4] >= 128 THEN b[1] + 256 * b[2] + 65536 * b[3] + 16777216 * (b[4] - 256)
    ELSE UInt32(b)

\* The stream a decoder is handed is either the byte stream itself or a
\* chain of BinaryWindows over it; lim is the innermost end of the chain, or
\* NoWindow for the byte stream itself.
NoWindow == 0 - 1

\* A read of n >= 0 bytes at position p through the chain of BinaryWindows
\* whose innermost end is lim: every window hands min(n, remaining) to the
\* stream below it.
WRead(s, p, lim, n) ==
    IF lim = NoWindow THEN StreamRead(s, p, n)
    ELSE StreamRead(s, p, WindowReadArg([start |-> 0, end |-> lim], p, n))

\* The innermost end once a window ending at `end` is sliced from a stream
\* whose innermost end is lim
Inner(lim, end) == IF lim = NoWindow THEN end ELSE Min(lim, end)

\* Sequencing.  Then(r, K): the call that gave r raised, and the exception
\* propagates, or it returned and the code goes on with its result.
\* With(v, K): the code goes on with the local v.  Both take the value of
\* their first argument once, as the code does, through a one-element set.
Then(r, K(_)) == CHOOSE y \in {IF ~x.ok THEN x ELSE K(x) : x \in {r}} : TRUE
With(v, K(_)) == CHOOSE y \in {K(x) : x \in {v}} : TRUE

\* structx.Struct.unpack_stream for a layout of `size` bytes: read(size),
\* then struct.unpack, which raises struct.error on a short buffer
unpack_stream(s, p, lim, size) ==
    With(WRead(s, p, lim, size), LAMBDA r :
        IF Len(r.data) # size THEN Fail("struct.error", r.pos)
        ELSE Ok(r.pos, r.data, FALSE))

\* _VarLenStruct.unpack_stream_size for "<length>v": length times a signed
\* 32-bit size, asserted >= 0, then that many bytes, all of which must come
RECURSIVE VarLenUnpackStream(_, _, _, _, _)
VarLenUnpackStream(s, p, lim, length, acc) ==
    IF length = 0 THEN Ok(p, acc, FALSE)
    ELSE Then(unpack_stream(s, p, lim, 4), LAMBDA h :
         IF Int32(h.val) < 0 THEN Fail("AssertionError", h.pos)
         ELSE With(WRead(s, h.pos, lim, Int32(h.val)), LAMBDA r :
              IF Len(r.data) # Int32(h.val)
              THEN Fail("NotImplementedError", r.pos)
              ELSE VarLenUnpackStream(s, r.pos, lim, length - 1, Append(acc, r.data))))

\* The values of a fixed part "<k>I": k unsigned 32-bit integers
RECURSIVE UInt32List(_)
UInt32List(b) ==
    IF Len(b) < 4 THEN <<>>
    ELSE <<UInt32(SubSeq(b, 1, 4))>> \o UInt32List(SubSeq(b, 5, Len(b)))

\* VStruct.unpack_stream: the sub-layouts of the format decoded in
\* sequence, each extending one flat tuple.  A layout is a sequence of
\* parts [code |-> "v" or "I", length |-> repeat count].
RECURSIVE VStructUnpackStream(_, _, _, _, _)
VStructUnpackStream(s, p, lim, layout, acc) ==
    IF layout = <<>> THEN Ok(p, acc, FALSE)
    ELSE With(Head(layout), LAMBDA part :
         Then(IF part.code = "v"
              THEN VarLenUnpackStream(s, p, lim, part.length, <<>>)
              ELSE unpack_stream(s, p, lim, 4 * part.length),
              LAMBDA r :
              VStructUnpackStream(s, r.pos, lim, Tail(layout),
                  acc \o (IF part.code = "v" THEN r.val ELSE UInt32List(r.val)))))

\* The layouts the property engine compiles
LAYOUT_v == <<[code |-> "v", length |-> 1]>>
LAYOUT_2v == <<[code |-> "v", length |-> 2]>>
LAYOUT_v2I == <<[code |-> "v", length |-> 1], [code |-> "I", length |-> 2]>>
LAYOUT_v4I == <<[code |-> "v", length |-> 1], [code |-> "I", length |-> 4]>>
LAYOUT_2I == <<[code |-> "I", length |-> 2]>>
LAYOUT_I == <<[code |-> "I", length |-> 1]>>

\* PropertyHeader.unpack, called from `site`
PropertyHeaderUnpack(s, p, lim, site) ==
    Then(VStructUnpackStream(s, p, lim, LAYOUT_v, <<>>), LAMBDA n :
    IF buffer_to_str(n.val[1]) = NONE_PROPERTY_NAME THEN NoneError(n.pos, site)
    ELSE Then(VStructUnpackStream(s, n.pos, lim, LAYOUT_v2I, <<>>), LAMBDA h :
         IF PropertyTypeOf(buffer_to_str(h.val[1])) = ""
         THEN Fail("ValueError", h.pos)
         ELSE Ok(h.pos,
                 [name |-> buffer_to_str(n.val[1]),
                  property_type |-> PropertyTypeOf(buffer_to_str(h.val[1])),
                  read_size |-> h.val[2],
                  index |-> h.val[3]],
                 FALSE)))

\* create_property_window: reads the buffer start byte from the stream,
\* asserts it is 0x00 and slices a window of header.read_size bytes
create_property_window(s, p, lim, read_size) ==
    With(WRead(s, p, lim, 1), LAMBDA b :
        IF b.data # <<0>> THEN Fail("AssertionError", b.pos)
        ELSE Ok(b.pos, [start |-> b.pos, end |-> b.pos + read_size], FALSE))

\* structio.end_of_stream(window) with the stream at p, the window sliced
\* from a stream whose innermost end is lim: now = tell(); seek(0, 2);
\* then = tell(); seek(now); return now == then.  BinaryWindow.seek moves the
\* stream first and raises afterwards: the seek to the end raises in the
\* enclosing window when the end lies beyond it, the seek back raises when p
\* lies beyond the window.
end_of_stream(w, p, lim) ==
    IF lim # NoWindow /\ w.end > lim THEN Fail("Exception", w.end)
    ELSE IF p > w.end THEN Fail("Exception", p)
    ELSE Ok(p, p = w.end, FALSE)

(***************************************************************************)
(* Values.  A 32-bit float is kept as its IEEE-754 fields, a signed 64-bit *)
(* integer as its two 32-bit halves <<low, high>>.                         *)
(***************************************************************************)
Float32(b) ==
    [sign |-> b[4] \div 128,
     exponent |-> 2 * (b[4] % 128) + b[3] \div 128,
     fraction |-> b[1] + 256 * b[2] + 65536 * (b[3] % 128)]
Int64(b) == <<UInt32(SubSeq(b, 1, 4)), Int32(SubSeq(b, 5, 8))>>

\* the integers of a list at the width of Int64 values
Int64List(l) == [i \in DOMAIN l |-> <<l[i], 0>>]

RECURSIVE Float32List(_)
Float32List(b) ==
    IF Len(b) < 4 THEN <<>>
    ELSE <<Float32(SubSeq(b, 1, 4))>> \o Float32List(SubSeq(b, 5, Len(b)))

RECURSIVE Int32List(_)
Int32List(b) ==
    IF Len(b) < 4 THEN <<>>
    ELSE <<Int32(SubSeq(b, 1, 4))>> \o Int32List(SubSeq(b, 5, Len(b)))

\* structx.unpack_stream(f"{count}<code>", stream) for a code of `width`
\* bytes: calcsize gives count * width, read, then struct.unpack.  A count
\* beyond the bytes of the stream cannot be served (the read comes back short and
\* unpack raises), which is decided here without forming count * width.
unpack_stream_count(s, p, lim, count, width) ==
    IF count > Len(s)
    THEN Fail("struct.error", WRead(s, p, lim, Len(s)).pos)
    ELSE unpack_stream(s, p, lim, count * width)

(***************************************************************************)
(* The structure registry (satisfactory/structures.py).                    *)
(***************************************************************************)

\* StructIO.unpack(layout) for a layout of `size` bytes: stream.read(size),
\* then layout.unpack(buffer)
StructIOUnpack(s, p, lim, size) == unpack_stream(s, p, lim, size)

\* Vector2.unpack / Vector3.unpack / Vector4.unpack / Color.unpack /
\* FluidBox.unpack: "<k>f"
FloatsUnpack(s, p, lim, k, cls) ==
    Then(StructIOUnpack(s, p, lim, 4 * k), LAMBDA r :
        Ok(r.pos, [structure_type |-> <<>>, cls |-> cls, data |-> Float32List(r.val)], FALSE))

\* Color32.unpack: "4c"
Color32Unpack(s, p, lim) ==
    Then(StructIOUnpack(s, p, lim, 4), LAMBDA r :
        Ok(r.pos, [structure_type |-> <<>>, cls |-> "Color32", data |-> r.val], FALSE))

\* Box.unpack: two Vector3, then stream.read(1)
BoxUnpack(s, p, lim) ==
    Then(FloatsUnpack(s, p, lim, 3, "Vector3"), LAMBDA lo :
    Then(FloatsUnpack(s, lo.pos, lim, 3, "Vector3"), LAMBDA hi :
    With(WRead(s, hi.pos, lim, 1), LAMBDA unk :
        Ok(unk.pos,
           [structure_type |-> <<>>, cls |-> "Box",
            data |-> <<lo.val.data, hi.val.data, unk.data>>],
           Len(unk.data) # 1))))

\* GuidStructure.unpack: stream.read(16)
GuidStructureUnpack(s, p, lim) ==
    With(WRead(s, p, lim, 16), LAMBDA r :
        Ok(r.pos, [structure_type |-> <<>>, cls |-> "GuidStructure", data |-> r.data],
           Len(r.data) # 16))

\* StructIO.unpack_len_encoded_str with the defaults (UInt32 length, not
\* null terminated): the count, then read(count), decoded as it comes
UnpackLenEncodedStr(s, p, lim) ==
    Then(StructIOUnpack(s, p, lim, 4), LAMBDA c :
    With(WRead(s, c.pos, lim, UInt32(c.val)), LAMBDA r :
        Ok(r.pos, r.data, Len(r.data) # UInt32(c.val))))

\* InventoryItem.unpack: "i", then three length-encoded strings
InventoryItemUnpack(s, p, lim) ==
    Then(StructIOUnpack(s, p, lim, 4), LAMBDA a :
    Then(UnpackLenEncodedStr(s, a.pos, lim), LAMBDA t1 :
    Then(UnpackLenEncodedStr(s, t1.pos, lim), LAMBDA t2 :
    Then(UnpackLenEncodedStr(s, t2.pos, lim), LAMBDA t3 :
        Ok(t3.pos,
           [structure_type |-> <<>>, cls |-> "InventoryItem",
            data |-> <<Int32(a.val), t1.val, t2.val, t3.val>>],
           t1.short \/ t2.short \/ t3.short)))))

\* The native decoders of structures._unpack_map, by class
NativeUnpack(s, p, lim, cls) ==
    CASE cls = "Box" -> BoxUnpack(s, p, lim)
      [] cls = "Color32" -> Color32Unpack(s, p, lim)
      [] cls = "Color" -> FloatsUnpack(s, p, lim, 4, "Color")
      [] cls = "Vector4" -> FloatsUnpack(s, p, lim, 4, "Vector4")
      [] cls = "Vector3" -> FloatsUnpack(s, p, lim, 3, "Vector3")
      [] cls = "Vector2" -> FloatsUnpack(s, p, lim, 2, "Vector2")
      [] cls = "FluidBox" -> FloatsUnpack(s, p, lim, 1, "FluidBox")
      [] cls = "InventoryItem" -> InventoryItemUnpack(s, p, lim)
      [] cls = "GuidStructure" -> GuidStructureUnpack(s, p, lim)

(***************************************************************************)
(* The property engine (satisfactory/properties.py) and the dynamic        *)
(* structure, which call each other.                                       *)
(***************************************************************************)
RECURSIVE PropertyUnpack(_, _, _)
RECURSIVE PropertyDataUnpack(_, _, _, _)
RECURSIVE DynamicStructureLoop(_, _, _, _, _)
RECURSIVE unpack_as_type(_, _, _, _)
RECURSIVE ElementUnpack(_, _, _, _)
RECURSIVE ElementsUnpack(_, _, _, _, _, _, _)
RECURSIVE StructArrayItems(_, _, _, _, _, _, _)
RECURSIVE MapItems(_, _, _, _, _, _, _, _)

\* What the loops of DynamicStructure.unpack and
\* WorldObjectProperties.unpack do with the outcome r of Property.unpack:
\* append and go on (Again), break on NonePropertyError (Done), or let any
\* other exception through.
Loop(r, Again(_), Done(_)) ==
    IF r.ok THEN Again(r) ELSE IF r.none THEN Done(r) ELSE r

\* DynamicStructure.unpack: Property.unpack until NonePropertyError, and
\* nothing after it.  ended_by is the call site whose header read raised.
DynamicStructureLoop(s, p, lim, properties, sh) ==
    Loop(PropertyUnpack(s, p, lim),
         LAMBDA r : DynamicStructureLoop(s, r.pos, lim, Append(properties, r.val),
                                         sh \/ r.short),
         LAMBDA r : Ok(r.pos,
                       [structure_type |-> <<>>, cls |-> "DynamicStructure",
                        data |-> properties, ended_by |-> r.site],
                       sh))

\* DynamicStructure.unpack had it read a zero terminator after the sentinel
DynamicStructureUnpackTerminated(s, p, lim) ==
    Then(DynamicStructureLoop(s, p, lim, <<>>, FALSE), LAMBDA l :
    Then(unpack_stream(s, l.pos, lim, 4), LAMBDA z :
        IF UInt32(z.val) # 0 THEN Fail("AssertionError", z.pos)
        ELSE Ok(z.pos, l.val, l.short)))

DynamicStructureUnpack(s, p, lim) == DynamicStructureLoop(s, p, lim, <<>>, FALSE)

\* Structure.unpack_as_type(stream, type)
unpack_as_type(s, p, lim, type) ==
    IF type = <<>> THEN Fail("IndexError", p)
    ELSE IF type[Len(type)] = 0 THEN Fail("AssertionError", p)
    ELSE IF StructRegistered(type) /\ StructDecoder(type) = "None"
    THEN Fail("TypeError", p)
    ELSE Then(IF StructRegistered(type)
              THEN NativeUnpack(s, p, lim, StructDecoder(type))
              ELSE DynamicStructureUnpack(s, p, lim),
              LAMBDA r : Ok(r.pos, [r.val EXCEPT !.structure_type = type], r.short))

\* The tail every windowed decoder shares: `assert end_of_stream(window)`,
\* then the property data.  flag_at is where the buffer start byte was read.
WindowedReturn(w, r, lim) ==
    Then(r, LAMBDA v :
    Then(end_of_stream(w, v.pos, lim), LAMBDA e :
        IF ~e.val THEN Fail("AssertionError", v.pos)
        ELSE Ok(v.pos, [data |-> v.val, flag_at |-> w.start - 1], v.short)))

\* <Class>.unpack_element, by property type (a type outside
\* _unpack_element_map has none)
ElementUnpack(s, p, lim, type) ==
    CASE type = "Int" ->
            Then(unpack_stream(s, p, lim, 4), LAMBDA r : Ok(r.pos, Int32(r.val), FALSE))
      [] type = "Int64" ->
            Then(unpack_stream(s, p, lim, 8), LAMBDA r : Ok(r.pos, Int64(r.val), FALSE))
      [] type = "Float" ->
            Then(unpack_stream(s, p, lim, 4), LAMBDA r : Ok(r.pos, Float32(r.val), FALSE))
      [] type \in {"Object", "Interface"} ->
            Then(VStructUnpackStream(s, p, lim, LAYOUT_2v, <<>>), LAMBDA r :
                Ok(r.pos, <<buffer_to_str(r.val[1]), buffer_to_str(r.val[2])>>, FALSE))
      [] type = "Byte" -> Fail("NotImplementedError", p)
      [] type = "Bool" ->
            With(WRead(s, p, lim, 1), LAMBDA r : Ok(r.pos, r.data, Len(r.data) # 1))
      [] type = "Struct" -> DynamicStructureUnpack(s, p, lim)
      [] OTHER -> Fail("KeyError", p)

\* [element_unpacker(window) for _ in range(count)].  A decode that returns
\* without moving the stream repeats itself for every later index, so the
\* loop is cut there; the list then stands for count items.
ElementsUnpack(s, p, lim, type, count, acc, sh) ==
    IF count = 0 THEN Ok(p, acc, sh)
    ELSE Then(ElementUnpack(s, p, lim, type), LAMBDA r :
         IF r.pos = p THEN Ok(p, Append(acc, r.val), sh \/ r.short)
         ELSE ElementsUnpack(s, r.pos, lim, type, count - 1,
                             Append(acc, r.val), sh \/ r.short))

\* <Class>.unpack_array(stream, count), by property type
ArrayUnpack(s, p, lim, type, count) ==
    CASE type = "Int" ->
            Then(unpack_stream_count(s, p, lim, count, 4), LAMBDA r :
                Ok(r.pos, Int32List(r.val), FALSE))
      [] type = "Int64" ->
            Then(unpack_stream_count(s, p, lim, count, 4), LAMBDA r :
                Ok(r.pos, Int64List(UInt32List(r.val)), FALSE))
      [] type = "Float" ->
            Then(unpack_stream_count(s, p, lim, count, 4), LAMBDA r :
                Ok(r.pos, Float32List(r.val), FALSE))
      [] type \in {"Byte", "Bool"} ->
            With(WRead(s, p, lim, count), LAMBDA r :
                Ok(r.pos, r.data, Len(r.data) # count))
      [] OTHER -> Fail("NotImplementedError", p)

\* the loop of StructArrayProperty.unpack_struct_array
StructArrayItems(s, p, lim, struct_type, count, acc, sh) ==
    IF count = 0 THEN Ok(p, acc, sh)
    ELSE Then(unpack_as_type(s, p, lim, struct_type), LAMBDA r :
         IF r.pos = p THEN Ok(p, Append(acc, r.val), sh \/ r.short)
         ELSE StructArrayItems(s, r.pos, lim, struct_type, count - 1,
                               Append(acc, r.val), sh \/ r.short))

\* StructArrayProperty.unpack_struct_array(stream, count, array_type), the
\* stream being the array property's window
unpack_struct_array(s, p, lim, count) ==
    Then(PropertyHeaderUnpack(s, p, lim, "unpack_struct_array"), LAMBDA h :
    IF h.val.name = NONE_PROPERTY_NAME THEN Fail("AssertionError", h.pos)
    ELSE IF h.val.property_type # "Struct" THEN Fail("AssertionError", h.pos)
    ELSE Then(VStructUnpackStream(s, h.pos, lim, LAYOUT_v4I, <<>>), LAMBDA t :
         Then(create_property_window(s, t.pos, lim, h.val.read_size), LAMBDA w :
         Then(StructArrayItems(s, w.pos, Inner(lim, w.val.end),
                               buffer_to_str(t.val[1]), count, <<>>, FALSE),
              LAMBDA items :
         Then(end_of_stream(w.val, items.pos, lim), LAMBDA e :
              IF ~e.val THEN Fail("AssertionError", items.pos)
              ELSE Ok(items.pos,
                      [sub_header |-> h.val,
                       abcd |-> SubSeq(t.val, 2, 5),
                       values |-> items.val],
                      items.short))))))

\* key_value_map[key] = value
DictPut(d, k, v) ==
    IF \E i \in 1..Len(d) : d[i][1] = k
    THEN [i \in 1..Len(d) |-> IF d[i][1] = k THEN <<k, v>> ELSE d[i]]
    ELSE Append(d, <<k, v>>)

\* the loop of MapProperty.unpack: key and value are decoded from the
\* stream the property was given, not from the property's window; the key
\* is then hashed, which raises TypeError for a DynamicStructure (it holds
\* a list) and for an InterfaceProperty (a dataclass with eq and no hash)
MapItems(s, p, lim, key_type, value_type, count, acc, sh) ==
    IF count = 0 THEN Ok(p, acc, sh)
    ELSE Then(ElementUnpack(s, p, lim, key_type), LAMBDA k :
         Then(ElementUnpack(s, k.pos, lim, value_type), LAMBDA v :
         IF key_type \in {"Struct", "Interface"} THEN Fail("TypeError", v.pos)
         ELSE IF v.pos = p
         THEN Ok(p, DictPut(acc, k.val, v.val), sh \/ k.short \/ v.short)
         ELSE MapItems(s, v.pos, lim, key_type, value_type, count - 1,
                       DictPut(acc, k.val, v.val), sh \/ k.short \/ v.short)))

\* StringPropertyData.unpack / NameProperty.unpack
StringUnpack(s, p, lim, header) ==
    Then(create_property_window(s, p, lim, header.read_size), LAMBDA w :
        WindowedReturn(w.val,
            Then(VStructUnpackStream(s, w.pos, Inner(lim, w.val.end), LAYOUT_v, <<>>),
                 LAMBDA r : Ok(r.pos, buffer_to_str(r.val[1]), FALSE)),
            lim))

\* IntPropertyData.unpack / Int64PropertyData.unpack / FloatPropertyData.unpack /
\* ObjectPropertyData.unpack / InterfaceProperty.unpack: one element in a window
ElementPropertyUnpack(s, p, lim, header) ==
    Then(create_property_window(s, p, lim, header.read_size), LAMBDA w :
        WindowedReturn(w.val,
            ElementUnpack(s, w.pos, Inner(lim, w.val.end), header.property_type),
            lim))

\* ByteProperty.unpack: the sub-type from the stream; in the window either
\* one byte, read from the stream and not from the window, or a string
ByteUnpack(s, p, lim, header) ==
    Then(VStructUnpackStream(s, p, lim, LAYOUT_v, <<>>), LAMBDA t :
    Then(create_property_window(s, t.pos, lim, header.read_size), LAMBDA w :
        WindowedReturn(w.val,
            IF buffer_to_str(t.val[1]) = NONE_PROPERTY_NAME
            THEN With(WRead(s, w.pos, lim, 1), LAMBDA b :
                     Ok(b.pos, <<buffer_to_str(t.val[1]), b.data>>, Len(b.data) # 1))
            ELSE Then(VStructUnpackStream(s, w.pos, Inner(lim, w.val.end), LAYOUT_v, <<>>),
                      LAMBDA r :
                      Ok(r.pos, <<buffer_to_str(t.val[1]), buffer_to_str(r.val[1])>>, FALSE)),
            lim)))

\* BoolProperty.unpack: no window; `value, flag = stream.read(2)`
BoolUnpack(s, p, lim, header) ==
    IF header.read_size # 0 THEN Fail("AssertionError", p)
    ELSE With(WRead(s, p, lim, 2), LAMBDA r :
         IF Len(r.data) # 2 THEN Fail("ValueError", r.pos)
         ELSE IF r.data[2] # 0 THEN Fail("AssertionError", r.pos)
         ELSE Ok(r.pos, [data |-> r.data[1], flag_at |-> -1], FALSE))

\* EnumProperty.unpack
EnumUnpack(s, p, lim, header) ==
    Then(VStructUnpackStream(s, p, lim, LAYOUT_v, <<>>), LAMBDA t :
    Then(create_property_window(s, t.pos, lim, header.read_size), LAMBDA w :
        WindowedReturn(w.val,
            Then(VStructUnpackStream(s, w.pos, Inner(lim, w.val.end), LAYOUT_v, <<>>),
                 LAMBDA r :
                 Ok(r.pos, <<buffer_to_str(t.val[1]), buffer_to_str(r.val[1])>>, FALSE)),
            lim)))

\* StructProperty.unpack
StructUnpack(s, p, lim, header) ==
    Then(VStructUnpackStream(s, p, lim, LAYOUT_v4I, <<>>), LAMBDA t :
    Then(create_property_window(s, t.pos, lim, header.read_size), LAMBDA w :
        WindowedReturn(w.val,
            Then(unpack_as_type(s, w.pos, Inner(lim, w.val.end), buffer_to_str(t.val[1])),
                 LAMBDA r :
                 Ok(r.pos, [abcd |-> SubSeq(t.val, 2, 5), structure |-> r.val], r.short)),
            lim)))

\* the items of ArrayProperty.unpack, by array type
ArrayItems(s, p, lim, array_type, count) ==
    IF array_type = "Struct" THEN unpack_struct_array(s, p, lim, count)
    ELSE IF array_type \in PropertyUnpackArrayMap
    THEN ArrayUnpack(s, p, lim, array_type, count)
    ELSE IF array_type \in PropertyUnpackElementMap
    THEN ElementsUnpack(s, p, lim, array_type, count, <<>>, FALSE)
    ELSE Fail("NotImplementedError", p)

\* ArrayProperty.unpack
ArrayPropertyUnpack(s, p, lim, header) ==
    Then(VStructUnpackStream(s, p, lim, LAYOUT_v, <<>>), LAMBDA t :
    With(PropertyTypeOf(buffer_to_str(t.val[1])), LAMBDA array_type :
    IF array_type = "" THEN Fail("ValueError", t.pos)
    ELSE Then(create_property_window(s, t.pos, lim, header.read_size), LAMBDA w :
         Then(VStructUnpackStream(s, w.pos, Inner(lim, w.val.end), LAYOUT_I, <<>>),
              LAMBDA c :
              WindowedReturn(w.val,
                  Then(ArrayItems(s, c.pos, Inner(lim, w.val.end), array_type, c.val[1]),
                       LAMBDA items :
                       Ok(items.pos,
                          [array_type |-> array_type, values |-> items.val],
                          items.short)),
                  lim)))))

\* MapProperty.unpack
MapUnpack(s, p, lim, header) ==
    Then(VStructUnpackStream(s, p, lim, LAYOUT_2v, <<>>), LAMBDA t :
    Then(create_property_window(s, t.pos, lim, header.read_size), LAMBDA w :
    Then(VStructUnpackStream(s, w.pos, Inner(lim, w.val.end), LAYOUT_2I, <<>>), LAMBDA c :
    With(PropertyTypeOf(buffer_to_str(t.val[1])), LAMBDA key_type :
    With(PropertyTypeOf(buffer_to_str(t.val[2])), LAMBDA value_type :
        IF c.val[1] # 0 THEN Fail("AssertionError", c.pos)
        ELSE IF key_type = "" \/ value_type = "" THEN Fail("ValueError", c.pos)
        ELSE IF key_type \notin PropertyUnpackElementMap
                \/ value_type \notin PropertyUnpackElementMap
        THEN Fail("KeyError", c.pos)
        ELSE WindowedReturn(w.val,
                 Then(MapItems(s, c.pos, lim, key_type, value_type, c.val[2], <<>>, FALSE),
                      LAMBDA items :
                      Ok(items.pos,
                         [key_type |-> key_type, value_type |-> value_type,
                          map |-> items.val],
                         items.short)),
                 lim))))))

\* data_unpacker(stream, header): the decoder _unpack_map holds for the type
PropertyDataUnpack(s, p, lim, header) ==
    CASE header.property_type \in {"String", "Name"} -> StringUnpack(s, p, lim, header)
      [] header.property_type \in {"Int", "Int64", "Float", "Object", "Interface"} ->
            ElementPropertyUnpack(s, p, lim, header)
      [] header.property_type = "Byte" -> ByteUnpack(s, p, lim, header)
      [] header.property_type = "Bool" -> BoolUnpack(s, p, lim, header)
      [] header.property_type = "Enum" -> EnumUnpack(s, p, lim, header)
      [] header.property_type = "Struct" -> StructUnpack(s, p, lim, header)
      [] header.property_type = "Array" -> ArrayPropertyUnpack(s, p, lim, header)
      [] header.property_type = "Map" -> MapUnpack(s, p, lim, header)

\* Property.unpack(stream).  at is where the header starts.
PropertyUnpack(s, p, lim) ==
    Then(PropertyHeaderUnpack(s, p, lim, "Property.unpack"), LAMBDA h :
    IF h.val.property_type \notin PropertyUnpackMap
    THEN Fail("CantUnpackPropertyType", h.pos)
    ELSE Then(PropertyDataUnpack(s, h.pos, lim, h.val), LAMBDA d :
         Ok(d.pos,
            [header |-> h.val, data |-> d.val.data, flag_at |-> d.val.flag_at,
             at |-> p, end |-> d.pos],
            d.short)))

\* the loop of WorldObjectProperties.unpack
RECURSIVE WorldObjectPropertiesLoop(_, _, _, _, _)
WorldObjectPropertiesLoop(s, p, lim, properties, sh) ==
    Loop(PropertyUnpack(s, p, lim),
         LAMBDA r : WorldObjectPropertiesLoop(s, r.pos, lim, Append(properties, r.val),
                                              sh \/ r.short),
         LAMBDA r : Ok(r.pos,
                       [properties |-> properties, ended_by |-> r.site,
                        sentinel_end |-> r.pos],
                       sh))

\* WorldObjectProperties.unpack without `assert zero == 0`
WorldObjectPropertiesUnpackUnchecked(s, p, size) ==
    Then(WorldObjectPropertiesLoop(s, p, p + size, <<>>, FALSE), LAMBDA l :
    Then(unpack_stream(s, l.pos, p + size, 4), LAMBDA z :
        Ok(z.pos, l.val, l.short)))

\* WorldObjectProperties.unpack(stream, size): a window of size bytes, the
\* property loop, then one UInt32 that is asserted to be zero
WorldObjectPropertiesUnpack(s, p, size) ==
    Then(WorldObjectPropertiesLoop(s, p, p + size, <<>>, FALSE), LAMBDA l :
    Then(unpack_stream(s, l.pos, p + size, 4), LAMBDA z :
        IF UInt32(z.val) # 0 THEN Fail("AssertionError", z.pos)
        ELSE Ok(z.pos, l.val, l.short)))

(***************************************************************************)
(* Input streams of the property specification: a few well-formed property *)
(* lists, every one-byte change of them to a value in 0 .. MaxMutation and *)
(* every proper prefix of them.                                            *)
(***************************************************************************)
MaxMutation == 2    \* a changed byte takes a value in 0 .. MaxMutation

E32(n) == <<n % 256, (n \div 256) % 256, (n \div 65536) % 256, n \div 16777216>>
EStr(str) == E32(Len(str) + 1) \o str \o <<0>>
EHeader(name, type, size, index) ==
    EStr(name) \o EStr(PropertyType[type]) \o E32(size) \o E32(index)
EZeros(n) == [i \in 1..n |-> 0]
EBytes(n) == [i \in 1..n |-> 16 + i]
Terminator == EStr(NONE_PROPERTY_NAME) \o E32(0)

NameA == <<65>>
NameB == <<66>>
GuidName == <<71, 117, 105, 100>>
VectorName == <<86, 101, 99, 116, 111, 114>>
DynName == <<68>>

PInt == EHeader(NameA, "Int", 4, 0) \o <<0>> \o E32(7)
PBool == EHeader(NameB, "Bool", 0, 0) \o <<1, 0>>
PStr == EHeader(NameA, "String", 6, 0) \o <<0>> \o EStr(NameB)
PByte == EHeader(NameB, "Byte", 1, 0) \o EStr(NONE_PROPERTY_NAME) \o <<0>> \o <<9>>
PInt8 == EHeader(NameA, "Int8", 1, 0) \o <<0>> \o <<5>>
PGuid == EHeader(NameA, "Struct", 16, 0) \o EStr(GuidName) \o EZeros(16) \o <<0>> \o EBytes(16)
PGuidShort == EHeader(NameA, "Struct", 10, 0) \o EStr(GuidName) \o EZeros(16) \o <<0>> \o EBytes(10)
PDyn ==
    EHeader(NameA, "Struct", Len(PBool) + 9, 0) \o EStr(DynName) \o EZeros(16) \o <<0>>
        \o PBool \o EStr(NONE_PROPERTY_NAME)
PArrayInt ==
    EHeader(NameA, "Array", 12, 0) \o EStr(PropertyType["Int"]) \o <<0>>
        \o E32(2) \o E32(1) \o E32(2)
PArrayByteShort ==
    EHeader(NameA, "Array", 6, 0) \o EStr(PropertyType["Byte"]) \o <<0>>
        \o E32(5) \o <<1, 2>>
PArrayStruct ==
    EHeader(NameA, "Array", 4 + Len(EHeader(NameB, "Struct", 12, 0)) + 11 + 16 + 1 + 12, 0)
        \o EStr(PropertyType["Struct"]) \o <<0>> \o E32(1)
        \o EHeader(NameB, "Struct", 12, 0) \o EStr(VectorName) \o EZeros(16) \o <<0>> \o EBytes(12)
\* a struct array whose nested header is the sentinel, followed by zeros
PArraySentinel ==
    EHeader(NameA, "Array", 13, 0) \o EStr(PropertyType["Struct"]) \o <<0>> \o E32(1)
        \o EStr(NONE_PROPERTY_NAME)
PMap ==
    EHeader(NameB, "Map", 16, 0) \o EStr(PropertyType["Int"]) \o EStr(PropertyType["Int"])
        \o <<0>> \o E32(0) \o E32(1) \o E32(5) \o E32(6)

Documents ==
    { Terminator,
      PInt \o PBool \o Terminator,
      PByte \o PStr \o Terminator,
      PInt8 \o Terminator,
      PGuid \o Terminator,
      PGuidShort \o Terminator,
      PDyn \o Terminator,
      PArrayInt \o PMap \o Terminator,
      PArrayByteShort \o Terminator,
      PArrayStruct \o Terminator,
      PArraySentinel \o E32(0) }

Variants(d) ==
    {d} \cup {[d EXCEPT ![i] = b] : i \in 1..Len(d), b \in 0..MaxMutation}
        \cup {SubSeq(d, 1, k) : k \in 0..(Len(d) - 1)}

Inputs == UNION {Variants(d) : d \in Documents}

(***************************************************************************)
(* The property specification: the three decoders applied to one input,    *)
(* each from offset 0 of a stream of its own over the same bytes.          *)
(***************************************************************************)
Init ==
    /\ stream \in Inputs
    /\ pos = 0
    /\ win = [start |-> 0, end |-> Len(stream)]
    /\ last = [op |-> "init", n |-> 0, from |-> 0, data |-> <<>>, err |-> "none"]
    /\ bm = Idle
    /\ pres = Idle /\ wres = Idle /\ dres = Idle
    /\ acall = Idle /\ ares = Idle /\ eres = Idle
    /\ sname = <<>> /\ sres = Idle
    /\ CodecIdle /\ SaveIdle

\* Property.unpack(stream)
UnpackProperty ==
    /\ ~pres.done
    /\ pres' = PropertyUnpack(stream, 0, NoWindow)
    /\ UNCHANGED <<stream, pos, windowVars, bm, wres, dres, arrayVars, structVars, codecVars, saveVars>>

\* WorldObjectProperties.unpack(stream, size), size the bytes of the stream
UnpackWorldObjectProperties ==
    /\ ~wres.done
    /\ wres' = WorldObjectPropertiesUnpack(stream, 0, Len(stream))
    /\ UNCHANGED <<stream, pos, windowVars, bm, pres, dres, arrayVars, structVars, codecVars, saveVars>>

\* DynamicStructure.unpack(stream)
UnpackDynamicStructure ==
    /\ ~dres.done
    /\ dres' = DynamicStructureUnpack(stream, 0, NoWindow)
    /\ UNCHANGED <<stream, pos, windowVars, bm, pres, wres, arrayVars, structVars, codecVars, saveVars>>

Next == UnpackProperty \/ UnpackWorldObjectProperties \/ UnpackDynamicStructure

Spec == Init /\ [][Next]_vars

(***************************************************************************)
(* Claims about the property decoders (specification Spec).                *)
(***************************************************************************)

\* The sentinel header that ends at offset e: a length-prefixed name whose
\* bytes, with or without the trailing NUL, spell "None"
SentinelEndsAt(e) ==
    \E n \in {Len(NONE_PROPERTY_NAME), Len(NONE_PROPERTY_NAME) + 1} :
        /\ e >= n + 4
        /\ Int32(SubSeq(stream, e - n - 3, e - n)) = n
        /\ buffer_to_str(SubSeq(stream, e - n + 1, e)) = NONE_PROPERTY_NAME

\* The properties lie one after another in the stream, the first at offset 0
InStreamOrder(properties) ==
    \A i \in 1..Len(properties) :
        /\ properties[i].at = (IF i = 1 THEN 0 ELSE properties[i - 1].end)
        /\ properties[i].at < properties[i].end
        /\ properties[i].header.name # NONE_PROPERTY_NAME

C5_WindowExactlyConsumed ==
    (pres.done /\ pres.ok /\ pres.val.header.property_type # "Bool") =>
        /\ stream[pres.val.flag_at + 1] = 0
        /\ pres.pos = pres.val.flag_at + 1 + pres.val.header.read_size
        /\ ~pres.short

\* C6: when the header of the input names one of the 16 PropertyType tags,
\* Property.unpack does not fail for lack of a decoder.
C6_EveryTagHasDecoder ==
    LET h == PropertyHeaderUnpack(stream, 0, NoWindow, "Property.unpack")
    IN  (pres.done /\ h.ok /\ h.val.property_type \in DOMAIN PropertyType)
            => pres.err # "CantUnpackPropertyType"

C8_NestedSentinelNeverEndsList ==
    /\ (wres.done /\ wres.ok) => wres.val.ended_by = "Property.unpack"
    /\ (dres.done /\ dres.ok) => dres.val.ended_by = "Property.unpack"

(***************************************************************************)
(* The array specification: the whole-array decoder and the bare-element   *)
(* decoder of one element type applied to the same window, as              *)
(* ArrayProperty.unpack applies the one or the other.                      *)
(***************************************************************************)
MaxCount == 2          \* array counts are 0 .. MaxCount
MaxArrayBytes == 17    \* array windows hold 0 .. MaxArrayBytes bytes
MaxSeed == 2           \* the byte patterns start at 0 .. MaxSeed

Pattern(n, seed) == [i \in 1..n |-> (seed + 37 * i) % 128]

ArrayStreams == {Pattern(n, seed) : n \in 0..MaxArrayBytes, seed \in 0..MaxSeed}

\* the element types with both decoders that the claim names
BulkTypes == {"Int", "Int64", "Float"}

\* the bytes of one element, by struct format of the element decoder's LAYOUT
ElementWidth(type) == IF type = "Int64" THEN 8 ELSE 4

ArrayInit ==
    /\ stream \in ArrayStreams
    /\ pos = 0
    /\ win = [start |-> 0, end |-> Len(stream)]
    /\ last = [op |-> "init", n |-> 0, from |-> 0, data |-> <<>>, err |-> "none"]
    /\ bm = Idle
    /\ pres = Idle /\ wres = Idle /\ dres = Idle
    /\ acall \in [type : BulkTypes, count : 0..MaxCount]
    /\ ares = Idle /\ eres = Idle
    /\ sname = <<>> /\ sres = Idle
    /\ CodecIdle /\ SaveIdle

\* items = array_unpacker(window, count)
UnpackWholeArray ==
    /\ ~ares.done
    /\ ares' = ArrayUnpack(stream, 0, win.end, acall.type, acall.count)
    /\ UNCHANGED <<stream, pos, windowVars, bm, propVars, acall, eres, structVars, codecVars, saveVars>>

\* items = [element_unpacker(window) for _ in range(count)]
UnpackElements ==
    /\ ~eres.done
    /\ eres' = ElementsUnpack(stream, 0, win.end, acall.type, acall.count, <<>>, FALSE)
    /\ UNCHANGED <<stream, pos, windowVars, bm, propVars, acall, ares, structVars, codecVars, saveVars>>

ArrayNext == UnpackWholeArray \/ UnpackElements

SpecArray == ArrayInit /\ [][ArrayNext]_vars

\* C9: on the same window the whole-array decode of count n and n
\* bare-element decodes both succeed or both fail, and when they succeed both
\* consumed n times the element width (8n for Int64, 4n for Int and Float)
\* and yielded the same values.
C9_WholeArrayEqualsElements ==
    (ares.done /\ eres.done) =>
        /\ ares.ok = eres.ok
        /\ ares.ok =>
              /\ ares.pos = acall.count * ElementWidth(acall.type)
              /\ eres.pos = acall.count * ElementWidth(acall.type)
              /\ ares.val = eres.val

(***************************************************************************)
(* The structure specification: Structure.unpack_as_type applied to a type *)
(* name and a stream.                                                      *)
(***************************************************************************)
MaxStructBytes == 26   \* pattern streams hold 0 .. MaxStructBytes bytes

\* type names outside structures._unpack_map
OtherNames == {DynName, NameA \o NameB}

StructNames == {e[1] : e \in StructUnpackMap} \cup OtherNames

EInventoryItem == E32(1) \o E32(1) \o NameA \o E32(0) \o E32(2) \o NameA \o NameB

StructStreams ==
    {Pattern(n, seed) : n \in 0..MaxStructBytes, seed \in 0..MaxSeed}
        \cup {EInventoryItem, EStr(NONE_PROPERTY_NAME), PInt \o EStr(NONE_PROPERTY_NAME),
              PInt8 \o EStr(NONE_PROPERTY_NAME)}

StructInit ==
    /\ stream \in StructStreams
    /\ pos = 0
    /\ win = [start |-> 0, end |-> Len(stream)]
    /\ last = [op |-> "init", n |-> 0, from |-> 0, data |-> <<>>, err |-> "none"]
    /\ bm = Idle
    /\ pres = Idle /\ wres = Idle /\ dres = Idle
    /\ acall = Idle /\ ares = Idle /\ eres = Idle
    /\ sname \in StructNames
    /\ sres = Idle
    /\ CodecIdle /\ SaveIdle

\* Structure.unpack_as_type(stream, type)
UnpackAsType ==
    /\ ~sres.done
    /\ sres' = unpack_as_type(stream, 0, NoWindow, sname)
    /\ UNCHANGED <<stream, pos, windowVars, bm, propVars, arrayVars, sname, codecVars, saveVars>>

StructNext == UnpackAsType

SpecStruct == StructInit /\ [][StructNext]_vars

\* C10: unpack_as_type finds a decoder it can call for every name, and a
\* structure it returns carries the name as its structure_type and was
\* decoded by the table's decoder when the name is a key of the table and by
\* DynamicStructure.unpack otherwise.
C10_EveryNameDecodes ==
    sres.done =>
        /\ sres.err # "TypeError"
        /\ sres.ok =>
              /\ sres.val.structure_type = sname
              /\ sres.val.cls = (IF StructRegistered(sname) THEN StructDecoder(sname)
                                 ELSE "DynamicStructure")

----------------------------------------------------------------------------
(***************************************************************************)
(* The layout codec of serial-tools/vstruct.py and serial-tools/structx.py.*)
(* A format string is a sequence of one-character strings; a value handed  *)
(* to or returned by the codec is an integer (t = "int", n its value) or a *)
(* bytes object (t = "bytes", v its bytes).                                *)
(***************************************************************************)
IntV(n) == [t |-> "int", n |-> n, v |-> <<>>]
BytesV(b) == [t |-> "bytes", n |-> 0, v |-> b]

\* _VarLenStruct.SPECIAL, and the character classes of v_len_re
SPECIAL == {"P", "p", "V", "v"}
LayoutChars == {"<", ">", "=", "!", "@"}
DigitValue ==
    [c \in {"0", "1", "2", "3", "4", "5", "6", "7", "8", "9"} |->
        CASE c = "0" -> 0 [] c = "1" -> 1 [] c = "2" -> 2 [] c = "3" -> 3
          [] c = "4" -> 4 [] c = "5" -> 5 [] c = "6" -> 6 [] c = "7" -> 7
          [] c = "8" -> 8 [] c = "9" -> 9]
IsDigit(c) == c \in DOMAIN DigitValue

\* the first index from i on that holds no digit (Len + 1 if there is none)
RECURSIVE DigitsEnd(_, _)
DigitsEnd(fmt, i) ==
    IF i <= Len(fmt) /\ IsDigit(fmt[i]) THEN DigitsEnd(fmt, i + 1) ELSE i

\* v_len_re = ([<>=!@]?[0-9]*[PpVv]) matched at index i: the index of the
\* special character that ends the match, or 0 if there is no match at i
v_len_re_match(fmt, i) ==
    With(DigitsEnd(fmt, IF fmt[i] \in LayoutChars THEN i + 1 ELSE i), LAMBDA k :
        IF k <= Len(fmt) /\ fmt[k] \in SPECIAL THEN k ELSE 0)

\* v_len_re.search(fmt, pos): the span <<first, last>> of the leftmost
\* match that starts at index pos or later, or <<>> for None
RECURSIVE v_len_re_search(_, _)
v_len_re_search(fmt, i) ==
    IF i > Len(fmt) THEN <<>>
    ELSE IF v_len_re_match(fmt, i) # 0 THEN <<i, v_len_re_match(fmt, i)>>
    ELSE v_len_re_search(fmt, i + 1)

\* the while loop of separate_vlen_format, at index pos with parts so far
RECURSIVE SeparateFrom(_, _, _)
SeparateFrom(fmt, at, parts) ==
    IF at > Len(fmt) THEN parts
    ELSE With(v_len_re_search(fmt, at), LAMBDA s :
         IF s = <<>> THEN Append(parts, SubSeq(fmt, at, Len(fmt)))
         ELSE SeparateFrom(fmt, s[2] + 1,
                  Append(IF s[1] # at THEN Append(parts, SubSeq(fmt, at, s[1] - 1))
                         ELSE parts,
                         SubSeq(fmt, s[1], s[2]))))

\* separate_vlen_format(fmt): the format cut into variable-length tokens and
\* the fixed runs between them
separate_vlen_format(fmt) == SeparateFrom(fmt, 1, <<>>)

\* int(fmt[:-1]) in _VarLenStruct.__init__: the value of a non-empty run of
\* digits, or -1 where int raises ValueError
RECURSIVE IntOf(_, _)
IntOf(str, acc) ==
    IF str = <<>> THEN acc
    ELSE IF ~IsDigit(Head(str)) THEN 0 - 1
    ELSE IntOf(Tail(str), 10 * acc + DigitValue[Head(str)])

\* _VarLenStruct(fmt): layout is fmt[0] unless it is `not in ["@<>=!"]`, a
\* list whose one member is a five-character string, so it is always None;
\* length is int(fmt[:-1]), or 1 where that raises
VarLenStruct(fmt) ==
    [kind |-> "var",
     layout |-> IF <<fmt[1]>> \in {<<"@", "<", ">", "=", "!">>} THEN fmt[1] ELSE "None",
     char |-> fmt[Len(fmt)],
     length |-> IF Len(fmt) = 1 \/ IntOf(SubSeq(fmt, 1, Len(fmt) - 1), 0) < 0 THEN 1
                ELSE IntOf(SubSeq(fmt, 1, Len(fmt) - 1), 0)]

\* _VarLenStruct.__map: the struct of the length prefix, by special character
VarLenMap ==
    [c \in SPECIAL |->
        CASE c = "v" -> [size |-> 4, signed |-> TRUE]
          [] c = "V" -> [size |-> 4, signed |-> FALSE]
          [] c = "p" -> [size |-> 1, signed |-> TRUE]
          [] c = "P" -> [size |-> 1, signed |-> FALSE]]

\* structx._STRUCT_CHARS, and the fixed codes the model gives a width
STRUCT_CHARS ==
    {"c", "b", "B", "?", "h", "H", "i", "I", "l", "L", "q", "Q", "n", "N",
     "e", "f", "d", "p", "P", "s"}
FixedWidth == [c \in {"B", "I", "Q"} |-> CASE c = "B" -> 1 [] c = "I" -> 4 [] c = "Q" -> 8]

\* structx.count_args(fmt): struct_re = ([0-9]*)([cbB?...s]) searched from
\* index at on; every match adds its repeat count (1 for "s" or no repeat)
RECURSIVE count_args(_, _, _)
count_args(fmt, at, count) ==
    IF at > Len(fmt) THEN count
    ELSE With(DigitsEnd(fmt, at), LAMBDA k :
         IF k > Len(fmt) THEN count
         ELSE IF fmt[k] \notin STRUCT_CHARS THEN count_args(fmt, at + 1, count)
         ELSE count_args(fmt, k + 1,
                  count + (IF fmt[k] = "s" \/ k = at THEN 1
                           ELSE IntOf(SubSeq(fmt, at, k - 1), 0))))

\* the items of a fixed format in order, a repeat count expanded
RECURSIVE FixedItems(_, _)
FixedItems(fmt, at) ==
    IF at > Len(fmt) THEN <<>>
    ELSE IF fmt[at] \in LayoutChars THEN FixedItems(fmt, at + 1)
    ELSE With(DigitsEnd(fmt, at), LAMBDA k :
         [i \in 1..(IF k = at THEN 1 ELSE IntOf(SubSeq(fmt, at, k - 1), 0)) |-> fmt[k]]
             \o FixedItems(fmt, k + 1))

\* structx.Struct(format): struct.Struct, plus args = count_args(format).
\* Native mode (no prefix, or "@") aligns every item to its width.
Struct(fmt) ==
    [kind |-> "fixed",
     items |-> FixedItems(fmt, 1),
     native |-> fmt = <<>> \/ fmt[1] \notin {"<", ">", "=", "!"},
     args |-> count_args(fmt, 1, 0)]

\* str.strip() of one part of the format
RECURSIVE strip(_)
strip(f) ==
    IF f # <<>> /\ Head(f) = " " THEN strip(Tail(f))
    ELSE IF f # <<>> /\ f[Len(f)] = " " THEN strip(SubSeq(f, 1, Len(f) - 1))
    ELSE f

\* parse_vlen_format(fmt): a _VarLenStruct for a part that holds a special
\* character, a Struct for any other
parse_vlen_format(parts) ==
    [i \in DOMAIN parts |->
        IF \E j \in DOMAIN strip(parts[i]) : strip(parts[i])[j] \in SPECIAL
        THEN VarLenStruct(strip(parts[i]))
        ELSE Struct(strip(parts[i]))]

\* VStruct(fmt): one layout, or a list of sub-layouts if the format compiles
\* to more than one part
VStruct(fmt) ==
    IF \E j \in DOMAIN fmt : fmt[j] \in SPECIAL
    THEN With(parse_vlen_format(separate_vlen_format(fmt)), LAMBDA struct_list :
         IF Len(struct_list) = 1
         THEN [layout |-> struct_list[1], multi_layout |-> <<>>]
         ELSE [layout |-> "None", multi_layout |-> struct_list])
    ELSE [layout |-> Struct(fmt), multi_layout |-> <<>>]

\* struct.pack / struct.unpack of one integer of `width` bytes, little-endian
\* (two's complement: % and \div round down, so EncodeLE(-1, 4) is four 255s)
RECURSIVE EncodeLE(_, _)
EncodeLE(n, width) ==
    IF width = 0 THEN <<>> ELSE <<n % 256>> \o EncodeLE(n \div 256, width - 1)
RECURSIVE DecodeLE(_)
DecodeLE(b) ==
    IF b = <<>> THEN 0 ELSE Head(b) + 256 * DecodeLE(Tail(b))
RECURSIVE Pow256(_)
Pow256(width) == IF width = 0 THEN 1 ELSE 256 * Pow256(width - 1)
DecodeSigned(b) ==
    DecodeLE(SubSeq(b, 1, Len(b) - 1))
        + Pow256(Len(b) - 1) * (IF b[Len(b)] >= 128 THEN b[Len(b)] - 256 ELSE b[Len(b)])

\* n is in the range of an integer of `width` bytes; every integer of the
\* model is below 2^31, so a width of four bytes or more holds it if its
\* sign allows
InRange(n, width, signed) ==
    IF signed
    THEN width >= 4 \/ (n >= 0 - (Pow256(width) \div 2) /\ n < Pow256(width) \div 2)
    ELSE n >= 0 /\ (width >= 4 \/ n < Pow256(width))

\* the outcome of a pack: the bytes made, or the bytes a pack_stream wrote
\* and the count it returned; a failed pack_stream keeps what it had written
Packed(out, ret) == [ok |-> TRUE, err |-> "none", out |-> out, ret |-> ret, done |-> TRUE]
PackError(e, out) == [ok |-> FALSE, err |-> e, out |-> out, ret |-> 0, done |-> TRUE]

\* padding before an item of `width` bytes at offset `off` in native mode
Padding(st, off, width) ==
    IF st.native THEN [i \in 1..((width - (off % width)) % width) |-> 0] ELSE <<>>

\* struct.Struct.size
RECURSIVE FixedSize(_, _, _)
FixedSize(st, i, off) ==
    IF i > Len(st.items) THEN off
    ELSE FixedSize(st, i + 1,
             off + Len(Padding(st, off, FixedWidth[st.items[i]])) + FixedWidth[st.items[i]])

\* struct.Struct.pack(*v): struct.error unless there is one integer in range
\* for every item
RECURSIVE FixedPackFrom(_, _, _, _)
FixedPackFrom(st, v, i, acc) ==
    IF i > Len(st.items) THEN Packed(acc, Len(acc))
    ELSE IF v[i].t # "int" \/ ~InRange(v[i].n, FixedWidth[st.items[i]], FALSE)
    THEN PackError("struct.error", <<>>)
    ELSE FixedPackFrom(st, v, i + 1,
             acc \o Padding(st, Len(acc), FixedWidth[st.items[i]])
                 \o EncodeLE(v[i].n, FixedWidth[st.items[i]]))
FixedPack(st, v) ==
    IF Len(v) # Len(st.items) THEN PackError("struct.error", <<>>)
    ELSE FixedPackFrom(st, v, 1, <<>>)

\* struct.Struct.unpack(buffer) of a buffer of the layout's size
RECURSIVE FixedUnpack(_, _, _, _)
FixedUnpack(st, buffer, i, off) ==
    IF i > Len(st.items) THEN <<>>
    ELSE With(off + Len(Padding(st, off, FixedWidth[st.items[i]])), LAMBDA o :
         <<IntV(DecodeLE(SubSeq(buffer, o + 1, o + FixedWidth[st.items[i]])))>>
             \o FixedUnpack(st, buffer, i + 1, o + FixedWidth[st.items[i]]))

\* structx.Struct.pack_stream(stream, *v): pack, then one write
StructPackStream(st, out, v) ==
    Then(FixedPack(st, v), LAMBDA b : Packed(out \o b.out, Len(b.out)))

\* structx.Struct.unpack_stream(stream) on a byte stream at position p
StructUnpackStream(st, s, p) ==
    Then(unpack_stream(s, p, NoWindow, FixedSize(st, 1, 0)), LAMBDA r :
        Ok(r.pos, FixedUnpack(st, r.val, 1, 0), FALSE))

\* _VarLenStruct.pack had it written the values without their sizes
RECURSIVE VarLenPackUnsized(_, _)
VarLenPackUnsized(vl, v) ==
    IF v = <<>> THEN Packed(<<>>, 0)
    ELSE Packed(Head(v).v \o VarLenPackUnsized(vl, Tail(v)).out,
                Len(Head(v).v \o VarLenPackUnsized(vl, Tail(v)).out))

\* _VarLenStruct.pack(*v)
RECURSIVE VarLenPackFrom(_, _, _, _)
VarLenPackFrom(vl, v, i, r) ==
    IF i > Len(v) THEN Packed(r, Len(r))
    ELSE IF v[i].t # "bytes" THEN PackError("ValueError", <<>>)
    ELSE IF ~InRange(Len(v[i].v), VarLenMap[vl.char].size, VarLenMap[vl.char].signed)
    THEN PackError("struct.error", <<>>)
    ELSE VarLenPackFrom(vl, v, i + 1,
             r \o EncodeLE(Len(v[i].v), VarLenMap[vl.char].size) \o v[i].v)
VarLenPack(vl, v) ==
    IF Len(v) # vl.length THEN PackError("ValueError", <<>>)
    ELSE VarLenPackFrom(vl, v, 1, <<>>)

\* _VarLenStruct.pack_stream(stream, *v): one write of the size and one of
\* the bytes per value, so what was written before a bad value stays written
RECURSIVE VarLenPackStreamFrom(_, _, _, _, _)
VarLenPackStreamFrom(vl, out, v, i, w) ==
    IF i > Len(v) THEN Packed(out, w)
    ELSE IF v[i].t # "bytes" THEN PackError("ValueError", out)
    ELSE IF ~InRange(Len(v[i].v), VarLenMap[vl.char].size, VarLenMap[vl.char].signed)
    THEN PackError("struct.error", out)
    ELSE VarLenPackStreamFrom(vl,
             out \o EncodeLE(Len(v[i].v), VarLenMap[vl.char].size) \o v[i].v,
             v, i + 1, w + VarLenMap[vl.char].size + Len(v[i].v))
VarLenPackStream(vl, out, v) ==
    IF Len(v) # vl.length THEN PackError("ValueError", out)
    ELSE VarLenPackStreamFrom(vl, out, v, 1, 0)

\* the size prefix as its struct decodes it
PrefixValue(vl, b) == IF VarLenMap[vl.char].signed THEN DecodeSigned(b) ELSE DecodeLE(b)

\* _VarLenStruct.unpack_stream_size(stream): length times a size, asserted
\* non-negative, and a read of that many bytes, asserted complete; returns
\* the values and then - now.  now is the position the decode began at.
RECURSIVE VarLenUnpackStreamFrom(_, _, _, _, _, _)
VarLenUnpackStreamFrom(vl, s, now, p, n, acc) ==
    IF n = 0 THEN Ok(p, [values |-> acc, size |-> p - now], FALSE)
    ELSE Then(unpack_stream(s, p, NoWindow, VarLenMap[vl.char].size), LAMBDA h :
         IF PrefixValue(vl, h.val) < 0
         THEN \* the assertion's message is as_hex_adr(stream.tell() - 4)
              Fail(IF h.pos < 4 THEN "OverflowError" ELSE "AssertionError", h.pos)
         ELSE With(StreamRead(s, h.pos, PrefixValue(vl, h.val)), LAMBDA r :
              IF Len(r.data) # PrefixValue(vl, h.val) THEN Fail("AssertionError", r.pos)
              ELSE VarLenUnpackStreamFrom(vl, s, now, r.pos, n - 1,
                       Append(acc, BytesV(r.data)))))
unpack_stream_size(vl, s, p) == VarLenUnpackStreamFrom(vl, s, p, p, vl.length, <<>>)

\* buffer[i:j] for any integers i and j: a negative index counts from the
\* end, and both are clamped to the buffer
SliceIndex(buffer, i) ==
    IF i < 0 THEN Max(i + Len(buffer), 0) ELSE Min(i, Len(buffer))
Slice(buffer, i, j) == SubSeq(buffer, SliceIndex(buffer, i) + 1, SliceIndex(buffer, j))

\* struct.Struct.unpack_from(buffer, o) for a layout of `size` bytes: a
\* negative offset counts from the end of the buffer; struct.error unless
\* size bytes lie at the offset
unpack_from(buffer, o, size) ==
    IF o < 0 /\ o + Len(buffer) < 0 THEN Fail("struct.error", o)
    ELSE With(IF o < 0 THEN o + Len(buffer) ELSE o, LAMBDA at :
         IF Len(buffer) - at < size THEN Fail("struct.error", o)
         ELSE Ok(o, SubSeq(buffer, at + 1, at + size), FALSE))

\* _VarLenStruct.unpack_from_size(buffer, offset): length times a size at o,
\* NotImplementedError if o + s > len(buffer), the slice buffer[o:o + s],
\* and o += s; returns the values and o - offset
RECURSIVE VarLenUnpackFrom(_, _, _, _, _, _)
VarLenUnpackFrom(vl, buffer, offset, o, n, acc) ==
    IF n = 0 THEN Ok(o, [values |-> acc, size |-> o - offset], FALSE)
    ELSE Then(unpack_from(buffer, o, VarLenMap[vl.char].size), LAMBDA h :
         With(o + VarLenMap[vl.char].size, LAMBDA o1 :
         With(PrefixValue(vl, h.val), LAMBDA sz :
         IF o1 + sz > Len(buffer) THEN Fail("NotImplementedError", o1)
         ELSE VarLenUnpackFrom(vl, buffer, offset, o1 + sz, n - 1,
                  Append(acc, BytesV(Slice(buffer, o1, o1 + sz)))))))
unpack_from_size(vl, buffer, offset) ==
    VarLenUnpackFrom(vl, buffer, offset, offset, vl.length, <<>>)

\* the args attribute of a sub-layout: structx.Struct.__init__ sets it, and
\* _VarLenStruct.__init__, which does not call it, leaves it unset
PartArgs(part) ==
    IF part.kind = "var" THEN Fail("AttributeError", 0) ELSE Ok(0, part.args, FALSE)

\* VStruct.args
RECURSIVE MultiArgs(_, _, _)
MultiArgs(parts, i, sum) ==
    IF i > Len(parts) THEN Ok(0, sum, FALSE)
    ELSE Then(PartArgs(parts[i]), LAMBDA a : MultiArgs(parts, i + 1, sum + a.val))
VStructArgs(vs) ==
    IF vs.multi_layout # <<>> THEN MultiArgs(vs.multi_layout, 1, 0)
    ELSE PartArgs(vs.layout)

\* <sub-layout>.pack_stream(stream, *v)
PartPackStream(part, out, v) ==
    IF part.kind = "var" THEN VarLenPackStream(part, out, v)
    ELSE StructPackStream(part, out, v)

\* the loop of VStruct.pack_stream over the sub-layouts
RECURSIVE MultiPackStream(_, _, _, _, _, _)
MultiPackStream(parts, i, out, v, offset, written) ==
    IF i > Len(parts) THEN Packed(out, written)
    ELSE With(PartArgs(parts[i]), LAMBDA a :
         IF ~a.ok THEN PackError(a.err, out)
         ELSE Then(PartPackStream(parts[i], out,
                       SubSeq(v, Min(offset, Len(v)) + 1, Min(offset + a.val, Len(v)))),
                   LAMBDA w :
                   MultiPackStream(parts, i + 1, w.out, v, offset + a.val,
                                   written + w.ret)))

\* VStruct.pack_stream(stream, *v), the stream holding `out` so far
VStruct_pack_stream(vs, out, v) ==
    IF vs.multi_layout = <<>> THEN PartPackStream(vs.layout, out, v)
    ELSE With(VStructArgs(vs), LAMBDA a :
         IF ~a.ok THEN PackError(a.err, out)
         ELSE IF Len(v) # a.val THEN PackError("struct.error", out)
         ELSE MultiPackStream(vs.multi_layout, 1, out, v, 0, 0))

\* <sub-layout>.unpack_stream(stream)
PartUnpackStream(part, s, p) ==
    IF part.kind = "var"
    THEN Then(unpack_stream_size(part, s, p), LAMBDA r : Ok(r.pos, r.val.values, FALSE))
    ELSE StructUnpackStream(part, s, p)

\* VStruct.unpack_stream(stream): every sub-layout in turn, each extending
\* one flat tuple
RECURSIVE MultiUnpackStream(_, _, _, _, _)
MultiUnpackStream(parts, i, s, p, unpacked) ==
    IF i > Len(parts) THEN Ok(p, unpacked, FALSE)
    ELSE Then(PartUnpackStream(parts[i], s, p), LAMBDA r :
         MultiUnpackStream(parts, i + 1, s, r.pos, unpacked \o r.val))
VStruct_unpack_stream(vs, s, p) ==
    IF vs.multi_layout # <<>> THEN MultiUnpackStream(vs.multi_layout, 1, s, p, <<>>)
    ELSE PartUnpackStream(vs.layout, s, p)

(***************************************************************************)
(* The codec specification: a layout and values to pack, or a buffer to    *)
(* decode with one variable-length token.                                  *)
(***************************************************************************)
MaxBlob == 3            \* bytes in a blob packed with one token
MaxBufferOffset == 2     \* bytes before the token in a buffer to decode
MaxPayload == 3          \* bytes after the size prefix in a buffer to decode

\* blobs of up to n bytes
RECURSIVE Blobs(_)
Blobs(n) ==
    IF n = 0 THEN {<<>>}
    ELSE Blobs(n - 1) \cup {Append(b, x) : b \in {c \in Blobs(n - 1) : Len(c) = n - 1},
                                          x \in {0, 65, 255}}

\* the layouts packed, each with the kinds of value its format asks for
Layouts ==
    {[fmt |-> <<"v">>, types |-> <<"bytes">>],
     [fmt |-> <<"V">>, types |-> <<"bytes">>],
     [fmt |-> <<"=", "v">>, types |-> <<"bytes">>],
     [fmt |-> <<"2", "v">>, types |-> <<"bytes", "bytes">>],
     [fmt |-> <<"<", "3", "v">>, types |-> <<"bytes", "bytes", "bytes">>],
     [fmt |-> <<"2", "I">>, types |-> <<"int", "int">>],
     [fmt |-> <<"I", "Q">>, types |-> <<"int", "int">>],
     [fmt |-> <<"v", "2", "I">>, types |-> <<"bytes", "int", "int">>],
     [fmt |-> <<"I", "3", "v">>, types |-> <<"int", "bytes", "bytes", "bytes">>],
     [fmt |-> <<"3", "I", "3", "v", "=", "I", "Q">>,
      types |-> <<"int", "int", "int", "bytes", "bytes", "bytes", "int", "int">>]}
SingleTokens == {<<"v">>, <<"V">>}
LayoutTypes(fmt) == (CHOOSE l \in Layouts : l.fmt = fmt).types

SampleValues(type) ==
    IF type = "int" THEN {IntV(1), IntV(300)}
    ELSE {BytesV(<<>>), BytesV(<<65>>), BytesV(<<255, 0>>)}
RECURSIVE Tuples(_)
Tuples(types) ==
    IF types = <<>> THEN {<<>>}
    ELSE {<<x>> \o rest : x \in SampleValues(Head(types)), rest \in Tuples(Tail(types))}

\* the values a layout is packed with match it (its own kinds of value, one
\* each), or are one too few or one too many
Matches(fmt, v) ==
    /\ Len(v) = Len(LayoutTypes(fmt))
    /\ \A i \in DOMAIN v : v[i].t = LayoutTypes(fmt)[i]
PackCalls ==
    UNION {{[fmt |-> l.fmt, v |-> v] : v \in Tuples(l.types)} :
               l \in {k \in Layouts : k.fmt \notin SingleTokens}}
        \cup {[fmt |-> f, v |-> <<BytesV(b)>>] : f \in SingleTokens, b \in Blobs(MaxBlob)}
WrongCountCalls ==
    UNION {{[fmt |-> c.fmt, v |-> SubSeq(c.v, 1, n)] : n \in 0..(Len(c.v) - 1)} :
               c \in PackCalls}
        \cup {[fmt |-> c.fmt, v |-> Append(c.v, x)] :
                 c \in PackCalls, x \in {IntV(1), BytesV(<<65>>)}}

\* buffers to decode: some bytes, a 32-bit size that is negative, exact or
\* too large for the bytes after it, and those bytes
DeclaredSizes == {0 - 6, 0 - 1, 0, 1, 2, 4, 16777216}
RawBuffers ==
    {[i \in 1..k |-> 9] \o EncodeLE(n, 4)
                         \o [i \in 1..m |-> 64 + i] :
        k \in 0..MaxBufferOffset, n \in DeclaredSizes, m \in 0..MaxPayload}

CodecInit ==
    /\ \/ /\ stream = <<>>
          /\ \E c \in PackCalls \cup WrongCountCalls : vfmt = c.fmt /\ vargs = c.v
       \/ /\ stream \in RawBuffers
          /\ vfmt \in SingleTokens
          /\ vargs = <<>>
    /\ pos = 0
    /\ win = [start |-> 0, end |-> Len(stream)]
    /\ last = [op |-> "init", n |-> 0, from |-> 0, data |-> <<>>, err |-> "none"]
    /\ bm = Idle
    /\ pres = Idle /\ wres = Idle /\ dres = Idle
    /\ acall = Idle /\ ares = Idle /\ eres = Idle
    /\ sname = <<>> /\ sres = Idle
    /\ vpk = Idle /\ vps = Idle /\ vus = Idle /\ vuf = Idle /\ vrt = Idle
    /\ SaveIdle

\* _VarLenStruct(fmt).pack(*vargs)
Pack ==
    /\ stream = <<>> /\ ~vpk.done
    /\ VStruct(vfmt).multi_layout = <<>> /\ VStruct(vfmt).layout.kind = "var"
    /\ vpk' = VarLenPack(VStruct(vfmt).layout, vargs)
    /\ UNCHANGED <<stream, pos, windowVars, bm, propVars, arrayVars, structVars,
                   vfmt, vargs, vps, vus, vuf, vrt, saveVars>>

\* VStruct(fmt).pack_stream(BytesIO(), *vargs)
PackStream ==
    /\ stream = <<>> /\ ~vps.done
    /\ vps' = VStruct_pack_stream(VStruct(vfmt), <<>>, vargs)
    /\ UNCHANGED <<stream, pos, windowVars, bm, propVars, arrayVars, structVars,
                   vfmt, vargs, vpk, vus, vuf, vrt, saveVars>>

\* VStruct(fmt).unpack_stream(stream), the stream rewound to what
\* pack_stream wrote
UnpackWritten ==
    /\ vps.done /\ vps.ok /\ ~vrt.done
    /\ vrt' = VStruct_unpack_stream(VStruct(vfmt), vps.out, 0)
    /\ UNCHANGED <<stream, pos, windowVars, bm, propVars, arrayVars, structVars,
                   vfmt, vargs, vpk, vps, vus, vuf, saveVars>>

\* The size at `offset` is one the model's integers hold: an unsigned size
\* with its top bit set is 2^31 or more.
Holds(fmt, buffer, offset) ==
    IF VarLenMap[fmt[Len(fmt)]].signed \/ Len(buffer) < offset + 4 THEN TRUE
    ELSE buffer[offset + 4] < 128

\* _VarLenStruct(fmt).unpack_stream_size(stream): the stream holds what pack
\* returned, or a buffer to decode and stands at the token
UnpackStreamSize(offset) ==
    /\ ~vus.done
    /\ \/ vpk.done /\ vpk.ok /\ offset = 0
       \/ stream # <<>> /\ offset <= Len(stream) /\ Holds(vfmt, stream, offset)
    /\ vus' = [done |-> TRUE, offset |-> offset,
               buffer |-> IF stream = <<>> THEN vpk.out ELSE stream,
               r |-> unpack_stream_size(VStruct(vfmt).layout,
                                        IF stream = <<>> THEN vpk.out ELSE stream, offset)]
    /\ UNCHANGED <<stream, pos, windowVars, bm, propVars, arrayVars, structVars,
                   vfmt, vargs, vpk, vps, vuf, vrt, saveVars>>

\* _VarLenStruct(fmt).unpack_from_size(buffer, offset) on the same bytes
UnpackFromSize(offset) ==
    /\ ~vuf.done
    /\ \/ vpk.done /\ vpk.ok /\ offset = 0
       \/ stream # <<>> /\ offset <= Len(stream) /\ Holds(vfmt, stream, offset)
    /\ vuf' = [done |-> TRUE, offset |-> offset,
               buffer |-> IF stream = <<>> THEN vpk.out ELSE stream,
               r |-> unpack_from_size(VStruct(vfmt).layout,
                                      IF stream = <<>> THEN vpk.out ELSE stream, offset)]
    /\ UNCHANGED <<stream, pos, windowVars, bm, propVars, arrayVars, structVars,
                   vfmt, vargs, vpk, vps, vus, vrt, saveVars>>

CodecNext ==
    \/ Pack
    \/ PackStream
    \/ UnpackWritten
    \/ \E offset \in 0..MaxBufferOffset : UnpackStreamSize(offset)
    \/ \E offset \in 0..MaxBufferOffset : UnpackFromSize(offset)

SpecCodec == CodecInit /\ [][CodecNext]_vars

\* C11: a blob packed with one 'v' or 'V' token and decoded from a stream
\* comes back unchanged, and the decode reports 4 + len(b) bytes consumed.
C11_LengthPrefixFidelity ==
    (stream = <<>> /\ vfmt \in SingleTokens /\ Matches(vfmt, vargs) /\ vpk.done) =>
        /\ vpk.ok
        /\ vus.done =>
              /\ vus.r.ok
              /\ vus.r.val.values = vargs
              /\ vus.r.val.size = 4 + Len(vargs[1].v)

C11_Witness ==
    /\ stream = <<>> /\ vfmt \in SingleTokens /\ Matches(vfmt, vargs)
    /\ Len(vargs[1].v) = MaxBlob
    /\ vpk.done /\ vus.done /\ vus.r.ok /\ vus.r.val.size = 4 + MaxBlob

\* the size the token at the decode's offset declares is negative or larger
\* than the number of bytes after it
BadSize(d) ==
    /\ Len(d.buffer) >= d.offset + 4
    /\ \/ PrefixValue(VStruct(vfmt).layout, SubSeq(d.buffer, d.offset + 1, d.offset + 4)) < 0
       \/ PrefixValue(VStruct(vfmt).layout, SubSeq(d.buffer, d.offset + 1, d.offset + 4))
              > Len(d.buffer) - (d.offset + 4)

\* C12: a variable-length token whose size is negative or larger than the
\* bytes remaining makes the stream decoder and the buffer decoder fail; no
\* decode returns a blob for it or ends before the end of its size prefix.
C12_BadSizeIsFatal ==
    /\ (stream # <<>> /\ vus.done /\ BadSize(vus)) => ~vus.r.ok
    /\ (stream # <<>> /\ vuf.done /\ BadSize(vuf)) => ~vuf.r.ok

\* C13: for a layout that mixes fixed and variable tokens and values that
\* match it, pack_stream succeeds, and unpack_stream on the bytes written
\* returns the same values as one flat tuple and consumes as many bytes as
\* were written.
C13_MixedRoundTrip ==
    (vps.done /\ VStruct(vfmt).multi_layout # <<>> /\ Matches(vfmt, vargs)) =>
        /\ vps.ok
        /\ vrt.done => (vrt.ok /\ vrt.val = vargs /\ vrt.pos = vps.ret)

\* C14: pack_stream handed a number of values that is not the number the
\* layout's format asks for fails and leaves the stream empty.
C14_WrongCountWritesNothing ==
    (vps.done /\ Len(vargs) # Len(LayoutTypes(vfmt))) => (~vps.ok /\ vps.out = <<>>)


(***************************************************************************)
(* The chunk container (satisfactory/save.py).  A save file is a           *)
(* SaveHeader followed by chunks, each a 48-byte ChunkHeader and a zlib    *)
(* payload.  save.py compiles its layouts with StructIO.vstruct.VStruct,   *)
(* the codec of the property engine above.                                 *)
(***************************************************************************)

\* struct 'Q': eight bytes, little-endian, kept as its two 32-bit halves
\* <<low, high>>; two values are equal exactly when their halves are
UInt64(b) == <<UInt32(SubSeq(b, 1, 4)), UInt32(SubSeq(b, 5, 8))>>

\* The integer a 'Q' value stands for where the code counts bytes with it
\* (the files of the model keep the high half of every length at zero)
QBytes(q) == q[1]

\* The bytes one item of a fixed part takes
ItemWidth == [c \in {"c", "I", "f", "Q"} |->
                 CASE c = "c" -> 1 [] c = "I" -> 4 [] c = "f" -> 4 [] c = "Q" -> 8]

RECURSIVE ItemsSize(_)
ItemsSize(items) ==
    IF items = <<>> THEN 0 ELSE ItemWidth[Head(items)] + ItemsSize(Tail(items))

\* struct.unpack of a buffer of exactly the layout's size, without padding
\* ("=" layouts, and native layouts whose items are already aligned)
RECURSIVE ItemsUnpack(_, _)
ItemsUnpack(items, b) ==
    IF items = <<>> THEN <<>>
    ELSE With(ItemWidth[Head(items)], LAMBDA w :
         <<CASE Head(items) = "I" -> UInt32(SubSeq(b, 1, 4))
             [] Head(items) = "Q" -> UInt64(SubSeq(b, 1, 8))
             [] OTHER -> SubSeq(b, 1, w)>>
         \o ItemsUnpack(Tail(items), SubSeq(b, w + 1, Len(b))))

\* VStruct.unpack_stream for the layouts of save.py.  A part is
\* [code |-> "v", length |-> k] or [code |-> "fixed", items |-> <<...>>].
RECURSIVE SaveLayoutUnpack(_, _, _, _)
SaveLayoutUnpack(s, p, layout, acc) ==
    IF layout = <<>> THEN Ok(p, acc, FALSE)
    ELSE With(Head(layout), LAMBDA part :
         Then(IF part.code = "v"
              THEN VarLenUnpackStream(s, p, NoWindow, part.length, <<>>)
              ELSE unpack_stream(s, p, NoWindow, ItemsSize(part.items)),
              LAMBDA r :
              SaveLayoutUnpack(s, r.pos, Tail(layout),
                  acc \o (IF part.code = "v" THEN r.val
                          ELSE ItemsUnpack(part.items, r.val)))))

VPart(k) == [code |-> "v", length |-> k, items |-> <<>>]
FPart(items) == [code |-> "fixed", length |-> 0, items |-> items]

SHARED_LAYOUT == <<FPart(<<"I", "I", "I">>), VPart(3), FPart(<<"I", "Q">>)>>
V5_LAYOUT == <<FPart(<<"c">>)>>
V7_LAYOUT == <<FPart(<<"c", "I">>)>>
V8_LAYOUT == <<FPart(<<"c", "I">>), VPart(1), FPart(<<"I">>)>>
CHUNK_LAYOUT == <<FPart(<<"Q", "Q", "Q", "Q", "Q", "Q">>)>>

\* The header SaveHeader.unpack builds from the version and the versioned
\* arguments; an argument is <<>> for None and <<value>> for a value read
SaveHeaderOf(version, versioned_args) ==
    [version |-> version,
     tail |-> Cardinality({k \in 1..4 : versioned_args[k] # <<>>}),
     session_visibility |-> versioned_args[1],
     editor_version |-> versioned_args[2],
     meta |-> versioned_args[3],
     data_size |-> versioned_args[4]]

\* A SaveHeader.unpack that takes the editor version from version 8 on
SaveHeaderUnpackLateEditor(s, p) ==
    Then(SaveLayoutUnpack(s, p, SHARED_LAYOUT, <<>>), LAMBDA h :
    With(h.val[1], LAMBDA version :
    IF version >= 8
    THEN Then(SaveLayoutUnpack(s, h.pos, V8_LAYOUT, <<>>), LAMBDA t :
              Ok(t.pos, SaveHeaderOf(version, <<<<t.val[1]>>, <<t.val[2]>>,
                                               <<t.val[3]>>, <<t.val[4]>>>>), FALSE))
    ELSE IF version >= 5
    THEN Then(SaveLayoutUnpack(s, h.pos, V5_LAYOUT, <<>>), LAMBDA t :
              Ok(t.pos, SaveHeaderOf(version, <<<<t.val[1]>>, <<>>, <<>>, <<>>>>), FALSE))
    ELSE Ok(h.pos, SaveHeaderOf(version, <<<<>>, <<>>, <<>>, <<>>>>), FALSE)))

\* SaveHeader.unpack: the shared fields, then the tail the version gates
SaveHeaderUnpack(s, p) ==
    Then(SaveLayoutUnpack(s, p, SHARED_LAYOUT, <<>>), LAMBDA h :
    With(h.val[1], LAMBDA version :
    IF version >= 8
    THEN Then(SaveLayoutUnpack(s, h.pos, V8_LAYOUT, <<>>), LAMBDA t :
              Ok(t.pos, SaveHeaderOf(version, <<<<t.val[1]>>, <<t.val[2]>>,
                                               <<t.val[3]>>, <<t.val[4]>>>>), FALSE))
    ELSE IF version >= 7
    THEN Then(SaveLayoutUnpack(s, h.pos, V7_LAYOUT, <<>>), LAMBDA t :
              Ok(t.pos, SaveHeaderOf(version, <<<<t.val[1]>>, <<t.val[2]>>,
                                               <<>>, <<>>>>), FALSE))
    ELSE IF version >= 5
    THEN Then(SaveLayoutUnpack(s, h.pos, V5_LAYOUT, <<>>), LAMBDA t :
              Ok(t.pos, SaveHeaderOf(version, <<<<t.val[1]>>, <<>>, <<>>, <<>>>>), FALSE))
    ELSE Ok(h.pos, SaveHeaderOf(version, <<<<>>, <<>>, <<>>, <<>>>>), FALSE)))

\* A ChunkHeader.unpack that does not compare the verification copies
ChunkHeaderUnpackUnverified(s, p) ==
    Then(SaveLayoutUnpack(s, p, CHUNK_LAYOUT, <<>>), LAMBDA a :
        Ok(a.pos,
           [package_file_tag |-> a.val[1], maximum_chunk_size |-> a.val[2],
            compressed_len |-> a.val[3], uncompressed_len |-> a.val[4]],
           FALSE))

\* ChunkHeader.unpack: six 64-bit integers, the last two the verification
\* copies of the lengths
ChunkHeaderUnpack(s, p) ==
    Then(SaveLayoutUnpack(s, p, CHUNK_LAYOUT, <<>>), LAMBDA a :
    IF a.val[3] # a.val[5] THEN Fail("AssertionError", a.pos)
    ELSE IF a.val[4] # a.val[6] THEN Fail("AssertionError", a.pos)
    ELSE Ok(a.pos,
            [package_file_tag |-> a.val[1], maximum_chunk_size |-> a.val[2],
             compressed_len |-> a.val[3], uncompressed_len |-> a.val[4]],
            FALSE))

\* A Chunk.unpack that leaves the stream at the payload
ChunkUnpackNoSkip(s, p) ==
    Then(ChunkHeaderUnpack(s, p), LAMBDA h :
        Ok(h.pos, [header |-> h.val, ptr |-> h.pos], FALSE))

\* Chunk.unpack: the header, then a relative seek over the payload; the
\* chunk remembers where its payload starts
ChunkUnpack(s, p) ==
    Then(ChunkHeaderUnpack(s, p), LAMBDA h :
        Ok(StreamSeek(s, h.pos, QBytes(h.val.compressed_len), 1).pos,
           [header |-> h.val, ptr |-> h.pos], FALSE))

\* zlib.adler32 as the four big-endian bytes that end a zlib stream
RECURSIVE AdlerSums(_, _, _, _)
AdlerSums(data, i, a, b) ==
    IF i > Len(data) THEN <<a, b>>
    ELSE AdlerSums(data, i + 1, (a + data[i]) % 65521,
                   (b + ((a + data[i]) % 65521)) % 65521)

Adler32(data) ==
    With(AdlerSums(data, 1, 1, 0), LAMBDA ab :
        <<ab[2] \div 256, ab[2] % 256, ab[1] \div 256, ab[1] % 256>>)

\* inflate over stored blocks (the payloads of the model are deflated at
\* level 0): BFINAL and BTYPE, LEN and its complement NLEN, LEN bytes; after
\* the final block the Adler-32 of the output.  Bytes after it are ignored.
RECURSIVE InflateStored(_, _, _)
InflateStored(b, i, out) ==
    IF i + 4 > Len(b) THEN Fail("zlib.error", 0)
    ELSE IF (b[i] \div 2) % 4 # 0 THEN Fail("zlib.error", 0)
    ELSE With(b[i + 1] + 256 * b[i + 2], LAMBDA len :
         IF len + b[i + 3] + 256 * b[i + 4] # 65535 THEN Fail("zlib.error", 0)
         ELSE IF i + 4 + len > Len(b) THEN Fail("zlib.error", 0)
         ELSE With(out \o SubSeq(b, i + 5, i + 4 + len), LAMBDA data :
              IF b[i] % 2 = 0 THEN InflateStored(b, i + 5 + len, data)
              ELSE IF i + 8 + len > Len(b) THEN Fail("zlib.error", 0)
              ELSE IF SubSeq(b, i + 5 + len, i + 8 + len) # Adler32(data)
                   THEN Fail("zlib.error", 0)
              ELSE Ok(0, data, FALSE)))

\* zlib.decompress: the two header bytes (deflate, window of at most 32K,
\* no preset dictionary, check bits), then the blocks
zlib_decompress(b) ==
    IF Len(b) < 2 THEN Fail("zlib.error", 0)
    ELSE IF b[1] % 16 # 8 \/ b[1] \div 16 > 7 \/ (b[1] * 256 + b[2]) % 31 # 0
              \/ (b[2] \div 32) % 2 = 1
         THEN Fail("zlib.error", 0)
    ELSE InflateStored(b, 3, <<>>)

\* Chunk.read_body one stream call at a time: tell, seek to the payload,
\* read, seek back; then the checks on what was read
ReadBodyFinish(chunk, buffer, decompress, p) ==
    IF Len(buffer) # QBytes(chunk.header.compressed_len)
    THEN Fail("AssertionError", p)
    ELSE IF ~decompress THEN Ok(p, buffer, FALSE)
    ELSE With(zlib_decompress(buffer), LAMBDA z :
         IF ~z.ok THEN Fail("zlib.error", p)
         ELSE IF Len(z.val) # QBytes(chunk.header.uncompressed_len)
              THEN Fail("AssertionError", p)
         ELSE Ok(p, z.val, FALSE))

\* A read_body that does not seek back to where the stream was
ReadBodyNoSeekBack(s, p, chunk, decompress) ==
    With(StreamSeek(s, p, chunk.ptr, 0).pos, LAMBDA at :
    With(StreamRead(s, at, QBytes(chunk.header.compressed_len)), LAMBDA r :
        ReadBodyFinish(chunk, r.data, decompress, r.pos)))

\* Chunk.read_body as one call on a stream at position p
read_body(s, p, chunk, decompress) ==
    With(p, LAMBDA return_to :
    With(StreamSeek(s, p, chunk.ptr, 0).pos, LAMBDA at :
    With(StreamRead(s, at, QBytes(chunk.header.compressed_len)), LAMBDA r :
    With(StreamSeek(s, r.pos, return_to, 0).pos, LAMBDA back :
        ReadBodyFinish(chunk, r.data, decompress, back)))))

\* One turn of the loop of CompressedSave.unpack with the stream at p: a
\* one-byte read that ends the loop when it gives nothing, else a seek back
\* and Chunk.unpack
ScanTurn(s, p) ==
    With(p, LAMBDA bookmark :
    With(StreamRead(s, p, 1), LAMBDA probe :
        IF Len(probe.data) = 0
        THEN [Ok(probe.pos, <<>>, FALSE) EXCEPT !.short = TRUE]
        ELSE ChunkUnpack(s, StreamSeek(s, probe.pos, bookmark, 0).pos)))

\* The loop of CompressedSave.unpack
RECURSIVE ScanLoop(_, _, _)
ScanLoop(s, p, chunks) ==
    With(ScanTurn(s, p), LAMBDA t :
        IF ~t.ok THEN t
        ELSE IF t.short THEN Ok(t.pos, chunks, FALSE)
        ELSE ScanLoop(s, t.pos, Append(chunks, t.val)))

\* CompressedSave.unpack
CompressedSaveUnpack(s, p) ==
    Then(SaveHeaderUnpack(s, p), LAMBDA h : ScanLoop(s, h.pos, <<>>))


(***************************************************************************)
(* The chunk container specification: CompressedSave.unpack walks a file   *)
(* one turn of its loop at a time; once it has returned, Chunk.read_body   *)
(* is called on the chunks it found, one call after another.               *)
(***************************************************************************)
MaxChunks == 2      \* chunks in a file
MaxData == 2        \* bytes of body a chunk holds before compression

E64(n) == E32(n) \o E32(0)

\* zlib.compress(data, 0): one final stored block
Deflate0(data) ==
    <<120, 1, 1, Len(data) % 256, Len(data) \div 256,
      255 - (Len(data) % 256), 255 - (Len(data) \div 256)>>
    \o data \o Adler32(data)

Datas == {[i \in 1..n |-> 64 + i] : n \in 0..MaxData}

\* What is wrong with a chunk: a verification copy one off or differing in
\* its high half, an uncompressed_len one more than the body (in both
\* copies), a payload whose check bytes are damaged
Faults == {"cverify+1", "cverify-1", "cverify_high", "uverify+1", "uverify-1",
           "ulen", "adler"}

ChunkBytes(data, fault) ==
    LET z == Deflate0(data)
        payload == IF fault = "adler"
                   THEN [z EXCEPT ![Len(z)] = (z[Len(z)] + 1) % 256] ELSE z
        ulen == Len(data) + (IF fault = "ulen" THEN 1 ELSE 0)
        cver == CASE fault = "cverify+1" -> E64(Len(z) + 1)
                  [] fault = "cverify-1" -> E64(Len(z) - 1)
                  [] fault = "cverify_high" -> E32(Len(z)) \o E32(1)
                  [] OTHER -> E64(Len(z))
        uver == CASE fault = "uverify+1" -> E64(ulen + 1)
                  [] fault = "uverify-1" -> E64(ulen - 1)
                  [] OTHER -> E64(ulen)
    IN  E64(1) \o E64(131072) \o E64(Len(z)) \o E64(ulen) \o cver \o uver \o payload

ChunkVariants ==
    {[data |-> d, fault |-> "none"] : d \in Datas}
    \cup {[data |-> [i \in 1..MaxData |-> 64 + i], fault |-> f] : f \in Faults}

ChunkLists == UNION {[1..n -> ChunkVariants] : n \in 0..MaxChunks}

RECURSIVE ChunksBytes(_)
ChunksBytes(cl) ==
    IF cl = <<>> THEN <<>>
    ELSE ChunkBytes(Head(cl).data, Head(cl).fault) \o ChunksBytes(Tail(cl))

\* A save header of the given version: empty names, and the tail the
\* version asks for
SaveHeaderBytes(version) ==
    E32(version) \o E32(0) \o E32(0) \o E32(0) \o E32(0) \o E32(0) \o E32(0) \o E64(0)
    \o (IF version >= 8 THEN <<0>> \o E32(0) \o E32(0) \o E32(0)
        ELSE IF version >= 7 THEN <<0>> \o E32(0)
        ELSE IF version >= 5 THEN <<0>>
        ELSE <<>>)

SaveVersions == {4, 5, 7, 8}

\* How a file ends: with its last chunk, one byte short of it, or with
\* three more bytes
Tails == {"whole", "cut", "extra"}

FileBytes(version, cl, tail) ==
    LET b == SaveHeaderBytes(version) \o ChunksBytes(cl)
    IN  CASE tail = "cut" -> SubSeq(b, 1, Len(b) - 1)
          [] tail = "extra" -> b \o <<1, 2, 3>>
          [] OTHER -> b

\* Where the payload of chunk k of a file starts
RECURSIVE PayloadOffset(_, _, _)
PayloadOffset(version, cl, k) ==
    IF k = 1 THEN Len(SaveHeaderBytes(version)) + 48
    ELSE PayloadOffset(version, cl, k - 1)
         + Len(Deflate0(cl[k - 1].data)) + 48

ChunkInit ==
    /\ \E version \in SaveVersions, cl \in ChunkLists, tail \in Tails :
          /\ stream = FileBytes(version, cl, tail)
          /\ scan = [done |-> FALSE, state |-> "start", err |-> "none",
                     chunks |-> <<>>, turns |-> <<>>, reads |-> <<>>, end |-> 0,
                     file |-> [version |-> version, chunks |-> cl, tail |-> tail]]
    /\ pos = 0
    /\ win = [start |-> 0, end |-> Len(stream)]
    /\ last = [op |-> "init", n |-> 0, from |-> 0, data |-> <<>>, err |-> "none"]
    /\ bm = Idle
    /\ pres = Idle /\ wres = Idle /\ dres = Idle
    /\ acall = Idle /\ ares = Idle /\ eres = Idle
    /\ sname = <<>> /\ sres = Idle
    /\ CodecIdle
    /\ rb = Idle /\ body = Idle /\ call = Idle

\* CompressedSave.unpack up to its loop: SaveHeader.unpack
ScanStart ==
    /\ scan.state = "start"
    /\ \E h \in {SaveHeaderUnpack(stream, pos)} :
           /\ pos' = h.pos
           /\ scan' = [scan EXCEPT !.state = IF h.ok THEN "loop" ELSE "raised",
                                   !.done = ~h.ok,
                                   !.err = h.err,
                                   !.end = h.pos]
    /\ UNCHANGED <<stream, windowVars, bm, propVars, arrayVars, structVars,
                   codecVars, rb, body, call>>

\* One turn of the loop of CompressedSave.unpack; the turn that reads
\* nothing returns the CompressedSave
ScanStep ==
    /\ scan.state = "loop"
    /\ \E t \in {ScanTurn(stream, pos)},
          probe \in {[from |-> pos, to |-> StreamRead(stream, pos, 1).pos]},
          header \in {[from |-> pos, to |-> StreamRead(stream, pos, 48).pos]},
          hdr \in {ChunkHeaderUnpack(stream, pos)} :
           /\ pos' = t.pos
           /\ scan' =
                IF t.ok /\ t.short
                THEN [scan EXCEPT !.state = "returned", !.done = TRUE,
                                  !.reads = Append(@, probe), !.end = t.pos]
                ELSE [scan EXCEPT
                        !.state = IF t.ok THEN "loop" ELSE "raised",
                        !.done = ~t.ok,
                        !.err = t.err,
                        !.end = t.pos,
                        !.chunks = IF t.ok THEN Append(@, t.val) ELSE @,
                        !.turns = Append(@, [at |-> pos, hdr |-> hdr]),
                        !.reads = @ \o <<probe, header>>]
    /\ UNCHANGED <<stream, windowVars, bm, propVars, arrayVars, structVars,
                   codecVars, rb, body, call>>

\* stream.seek(0) between two calls
SeekStart ==
    /\ scan.state = "returned" /\ pos # 0
    /\ pos' = StreamSeek(stream, pos, 0, 0).pos
    /\ UNCHANGED <<stream, windowVars, bm, propVars, arrayVars, structVars,
                   codecVars, saveVars>>

\* chunks[i].read_body(decompress), the whole call
ReadBody(i, decompress) ==
    /\ scan.state = "returned" /\ i \in DOMAIN scan.chunks
    /\ \E r \in {read_body(stream, pos, scan.chunks[i], decompress)} :
           /\ rb' = [done |-> TRUE, i |-> i, decompress |-> decompress,
                     before |-> pos, r |-> r]
           /\ pos' = r.pos
    /\ UNCHANGED <<stream, windowVars, bm, propVars, arrayVars, structVars,
                   codecVars, scan, body, call>>

ChunkNext ==
    \/ ScanStart
    \/ ScanStep
    \/ SeekStart
    \/ \E i \in 1..MaxChunks, decompress \in BOOLEAN : ReadBody(i, decompress)

SpecChunks == ChunkInit /\ [][ChunkNext]_vars

\* The loop of CompressedSave.unpack is not preempted for ever
SpecChunksFair == SpecChunks /\ WF_vars(ScanStart \/ ScanStep)


(***************************************************************************)
(* Claims about the chunk container.                                       *)
(***************************************************************************)

\* The verification copies in the 48 bytes at `at` are, byte for byte, the
\* lengths before them
CopiesEqual(at) ==
    /\ SubSeq(stream, at + 17, at + 24) = SubSeq(stream, at + 33, at + 40)
    /\ SubSeq(stream, at + 25, at + 32) = SubSeq(stream, at + 41, at + 48)

\* No read of the scan so far took a byte of the payload of a chunk found
PayloadUntouched ==
    \A k \in DOMAIN scan.chunks, j \in DOMAIN scan.reads :
        \/ scan.reads[j].to <= scan.chunks[k].ptr
        \/ scan.reads[j].from >= scan.chunks[k].ptr
                                   + QBytes(scan.chunks[k].header.compressed_len)

\* C15: ChunkHeader.unpack on 48 available bytes leaves the stream 48 bytes
\* on and succeeds exactly when both verification copies equal their
\* primaries; when it fails, it fails inside the scan of CompressedSave.unpack,
\* which raises at that header: no read has gone past the header or into an
\* earlier chunk's payload, and no read_body has run.
C15_HeaderVerifiedWhileScanning ==
    \A i \in DOMAIN scan.turns :
        (scan.turns[i].at + 48 <= Len(stream)) =>
            /\ scan.turns[i].hdr.pos = scan.turns[i].at + 48
            /\ scan.turns[i].hdr.ok <=> CopiesEqual(scan.turns[i].at)
            /\ ~scan.turns[i].hdr.ok =>
                  /\ scan.state = "raised" /\ i = Len(scan.turns)
                  /\ scan.err = "AssertionError"
                  /\ rb = Idle
                  /\ PayloadUntouched
                  /\ \A j \in DOMAIN scan.reads :
                        scan.reads[j].to <= scan.turns[i].at + 48

\* The second chunk's uncompressed_len copy is one less than the primary,
\* and the scan raised at its header
C15_Witness ==
    /\ scan.state = "raised"
    /\ Len(scan.turns) = 2 /\ Len(scan.chunks) = 1
    /\ Len(scan.file.chunks) = 2
    /\ scan.file.chunks[2].fault = "uverify-1"
    /\ scan.turns[2].at + 48 <= Len(stream)
    /\ ~scan.turns[2].hdr.ok


\* The bytes a file holds of a chunk's payload
StoredPayload(c) ==
    SubSeq(stream, c.ptr + 1,
           Min(Len(stream), c.ptr + QBytes(c.header.compressed_len)))

\* C16: a read_body call leaves the stream where it found it.  It fails when
\* the file holds fewer than compressed_len bytes at the payload offset;
\* otherwise, without decompression it returns exactly those bytes, and with
\* decompression it returns the body whose deflation they are when that
\* body is uncompressed_len bytes long and fails when it is not.
C16_ReadBodyReturnsPayload ==
    (scan.state = "returned" /\ rb.done) =>
        /\ rb.r.pos = rb.before
        /\ pos = rb.before \/ pos = 0
        /\ IF scan.chunks[rb.i].ptr + QBytes(scan.chunks[rb.i].header.compressed_len)
                > Len(stream)
           THEN ~rb.r.ok
           ELSE IF ~rb.decompress
           THEN rb.r.ok /\ rb.r.val = StoredPayload(scan.chunks[rb.i])
           ELSE /\ rb.r.ok => Deflate0(rb.r.val) = StoredPayload(scan.chunks[rb.i])
                /\ \A d \in Datas :
                      (StoredPayload(scan.chunks[rb.i]) = Deflate0(d)) =>
                          IF Len(d) = QBytes(scan.chunks[rb.i].header.uncompressed_len)
                          THEN rb.r.ok /\ rb.r.val = d
                          ELSE ~rb.r.ok

\* The second chunk's body was inflated with the stream standing at the
\* start of the file, and the stream stands there again
C16_Witness ==
    /\ scan.state = "returned" /\ rb.done
    /\ rb.i = 2 /\ rb.decompress /\ rb.before = 0 /\ pos = 0
    /\ rb.r.ok /\ Len(rb.r.val) = MaxData


\* A file whose chunk headers all carry true copies
HeadersSound ==
    \A k \in DOMAIN scan.file.chunks :
        scan.file.chunks[k].fault \in {"none", "ulen", "adler"}

\* What CompressedSave.unpack returned is what the file was made of
ChunksAsStored ==
    /\ Len(scan.chunks) = Len(scan.file.chunks)
    /\ \A k \in DOMAIN scan.chunks :
          /\ scan.chunks[k].ptr
                = PayloadOffset(scan.file.version, scan.file.chunks, k)
          /\ scan.turns[k].at + 48 = scan.chunks[k].ptr
          /\ scan.chunks[k].header.compressed_len
                = <<Len(Deflate0(scan.file.chunks[k].data)), 0>>
          /\ k > 1 => scan.chunks[k - 1].ptr < scan.chunks[k].ptr

\* C17: CompressedSave.unpack comes to an end on every file.  It returns at
\* the first read of the loop that gives no byte; what it returns is one
\* Chunk per chunk of the file, in file order, each pointing just after its
\* own 48-byte header; the stream is left where a read gives nothing, which
\* is the end of the file when the file ends with its last chunk.  A file of
\* whole chunks with true copies is never refused.
C17_ScanTerminatesWithAllChunks ==
    <>(/\ scan.state \in {"returned", "raised"}
       /\ scan.state = "returned" =>
             /\ scan.reads[Len(scan.reads)].to = scan.reads[Len(scan.reads)].from
             /\ \A j \in 1..(Len(scan.reads) - 1) :
                   scan.reads[j].to > scan.reads[j].from
             /\ ChunksAsStored
             /\ StreamRead(stream, scan.end, 1).data = <<>>
             /\ scan.file.tail = "whole" => scan.end = Len(stream)
       /\ (scan.state = "raised" /\ scan.file.tail = "whole") => ~HeadersSound)

\* A file of MaxChunks whole chunks was scanned to its end
C17_Witness ==
    /\ scan.state = "returned"
    /\ Len(scan.chunks) = MaxChunks
    /\ scan.file.tail = "whole"
    /\ scan.end = Len(stream)


(***************************************************************************)
(* read_body calls that overlap.  CompressedSave.unpack has returned; one  *)
(* read_body(decompress=True) call per chunk runs on the stream all the    *)
(* chunks share, and the calls take their stream operations (tell, seek to *)
(* the payload, read, seek back) in any order.                             *)
(***************************************************************************)

\* CompressedSave.decompress_body_into: the chunks' bodies one after
\* another, in chunk order
RECURSIVE decompress_body_into(_, _, _, _)
decompress_body_into(s, p, chunks, buffer) ==
    IF chunks = <<>> THEN Ok(p, buffer, FALSE)
    ELSE Then(read_body(s, p, Head(chunks), TRUE), LAMBDA b :
         decompress_body_into(s, b.pos, Tail(chunks), buffer \o b.val))

\* The files whose scan returns at least one chunk: whole chunks with true
\* copies behind a version 8 header
SoundChunkLists ==
    {cl \in ChunkLists :
        /\ cl # <<>>
        /\ \A k \in DOMAIN cl : cl[k].fault \in {"none", "ulen", "adler"}}

ConcurrentInit ==
    /\ \E cl \in SoundChunkLists :
          /\ stream = FileBytes(8, cl, "whole")
          /\ \E r \in {CompressedSaveUnpack(stream, 0)} :
                /\ r.ok
                /\ scan = [done |-> TRUE, state |-> "returned", err |-> "none",
                           chunks |-> r.val, turns |-> <<>>, reads |-> <<>>,
                           end |-> r.pos,
                           file |-> [version |-> 8, chunks |-> cl, tail |-> "whole"]]
                /\ pos \in {0, r.pos}
                /\ rb = [done |-> FALSE, start |-> pos,
                         calls |-> [i \in DOMAIN r.val |->
                                       [pc |-> "tell", return_to |-> 0,
                                        buffer |-> <<>>, r |-> Idle]]]
    /\ win = [start |-> 0, end |-> Len(stream)]
    /\ last = [op |-> "init", n |-> 0, from |-> 0, data |-> <<>>, err |-> "none"]
    /\ bm = Idle
    /\ pres = Idle /\ wres = Idle /\ dres = Idle
    /\ acall = Idle /\ ares = Idle /\ eres = Idle
    /\ sname = <<>> /\ sres = Idle
    /\ CodecIdle
    /\ body = Idle /\ call = Idle

Calling(i, pc) == i \in DOMAIN rb.calls /\ rb.calls[i].pc = pc

\* return_to = self._stream.tell()
RbTell(i) ==
    /\ Calling(i, "tell")
    /\ rb' = [rb EXCEPT !.calls[i].return_to = pos, !.calls[i].pc = "seek"]
    /\ UNCHANGED <<stream, pos, windowVars, bm, propVars, arrayVars, structVars,
                   codecVars, scan, body, call>>

\* self._stream.seek(self._ptr)
RbSeek(i) ==
    /\ Calling(i, "seek")
    /\ pos' = StreamSeek(stream, pos, scan.chunks[i].ptr, 0).pos
    /\ rb' = [rb EXCEPT !.calls[i].pc = "read"]
    /\ UNCHANGED <<stream, windowVars, bm, propVars, arrayVars, structVars,
                   codecVars, scan, body, call>>

\* buffer = self._stream.read(self.header.compressed_len)
RbRead(i) ==
    /\ Calling(i, "read")
    /\ \E r \in {StreamRead(stream, pos,
                            QBytes(scan.chunks[i].header.compressed_len))} :
          /\ pos' = r.pos
          /\ rb' = [rb EXCEPT !.calls[i].buffer = r.data, !.calls[i].pc = "back"]
    /\ UNCHANGED <<stream, windowVars, bm, propVars, arrayVars, structVars,
                   codecVars, scan, body, call>>

\* self._stream.seek(return_to)
RbSeekBack(i) ==
    /\ Calling(i, "back")
    /\ pos' = StreamSeek(stream, pos, rb.calls[i].return_to, 0).pos
    /\ rb' = [rb EXCEPT !.calls[i].pc = "check"]
    /\ UNCHANGED <<stream, windowVars, bm, propVars, arrayVars, structVars,
                   codecVars, scan, body, call>>

\* the asserts and zlib.decompress, on what this call read
RbFinish(i) ==
    /\ Calling(i, "check")
    /\ \E r \in {ReadBodyFinish(scan.chunks[i], rb.calls[i].buffer, TRUE,
                                rb.calls[i].return_to)} :
          rb' = [rb EXCEPT !.calls[i].r = r, !.calls[i].pc = "done",
                           !.done = \A j \in DOMAIN rb.calls \ {i} :
                                        rb.calls[j].pc = "done"]
    /\ UNCHANGED <<stream, pos, windowVars, bm, propVars, arrayVars, structVars,
                   codecVars, scan, body, call>>

ConcurrentNext ==
    \E i \in 1..MaxChunks :
        \/ RbTell(i)
        \/ RbSeek(i)
        \/ RbRead(i)
        \/ RbSeekBack(i)
        \/ RbFinish(i)

SpecConcurrent == ConcurrentInit /\ [][ConcurrentNext]_vars

\* The bodies the overlapping calls returned, in chunk order
RECURSIVE ConcurrentBuffer(_)
ConcurrentBuffer(k) ==
    IF k = 0 THEN <<>>
    ELSE ConcurrentBuffer(k - 1) \o rb.calls[k].r.val

\* C18: when the overlapping read_body calls of a CompressedSave have all
\* ended, the stream stands where it stood before them; every call ended as
\* it does when it runs alone, with its own chunk's body; and the bodies in
\* chunk order are the buffer decompress_body_into writes.
C18_ConcurrentReadBody ==
    rb.done =>
        /\ pos = rb.start
        /\ \A i \in DOMAIN rb.calls :
              /\ rb.calls[i].r.ok
                    = read_body(stream, rb.start, scan.chunks[i], TRUE).ok
              /\ rb.calls[i].r.val
                    = read_body(stream, rb.start, scan.chunks[i], TRUE).val
        /\ decompress_body_into(stream, rb.start, scan.chunks, <<>>).ok =>
              ConcurrentBuffer(Len(scan.chunks))
                  = decompress_body_into(stream, rb.start, scan.chunks, <<>>).val


(***************************************************************************)
(* The save body (satisfactory/save.py, SaveBody.unpack): declared_size    *)
(* and its check, the object headers, the second count, the deferred       *)
(* read_properties pass, the collected objects.                            *)
(***************************************************************************)
UINT32_LAYOUT == <<FPart(<<"I">>)>>
WORLD_OBJECT_HEADER_LAYOUT == <<FPart(<<"I">>), VPart(3)>>
STR_LAYOUT == <<VPart(1)>>
DATA_LAYOUT ==
    <<FPart(<<"I", "f", "f", "f", "f", "f", "f", "f", "f", "f", "f", "I">>)>>
PROP_HEADER_LAYOUT == <<VPart(2), FPart(<<"I">>)>>
COLLECTED_LAYOUT == <<VPart(2)>>

\* A SaveBody.unpack whose check only refuses a stream that ends before
\* data_size bytes
SaveBodySizeCheckAtLeast(s, p) ==
    Then(SaveLayoutUnpack(s, p, UINT32_LAYOUT, <<>>), LAMBDA d :
    With(d.pos, LAMBDA before :
    With(StreamSeek(s, before, 0, 2).pos, LAMBDA after :
        IF before + d.val[1] > after THEN Fail("AssertionError", after)
        ELSE Ok(StreamSeek(s, after, before, 0).pos, d.val[1], FALSE))))

\* SaveBody.unpack, lines 194-200: data_size, then the check that the
\* stream ends data_size bytes on; the stream is moved to its end for the
\* check and back when the check passes
SaveBodySizeCheck(s, p) ==
    Then(SaveLayoutUnpack(s, p, UINT32_LAYOUT, <<>>), LAMBDA d :
    With(d.pos, LAMBDA before :
    With(StreamSeek(s, before, 0, 2).pos, LAMBDA after :
        IF before + d.val[1] # after THEN Fail("AssertionError", after)
        ELSE Ok(StreamSeek(s, after, before, 0).pos, d.val[1], FALSE))))

\* WorldObject.unpack: the header, then the fixed fields of the variant its
\* type names; bytes.decode() refuses a byte that is not ASCII (the names of
\* the model are ASCII or hold one byte 255)
WorldObjectUnpack(s, p) ==
    Then(SaveLayoutUnpack(s, p, WORLD_OBJECT_HEADER_LAYOUT, <<>>), LAMBDA h :
    IF h.val[1] = 0
    THEN Then(SaveLayoutUnpack(s, h.pos, STR_LAYOUT, <<>>), LAMBDA d :
              IF \E k \in DOMAIN d.val[1] : d.val[1][k] >= 128
              THEN Fail("UnicodeDecodeError", d.pos)
              ELSE Ok(d.pos, [kind |-> "Str", type_path |-> h.val[2],
                               instance_name |-> h.val[4]], FALSE))
    ELSE IF h.val[1] = 1
    THEN Then(SaveLayoutUnpack(s, h.pos, DATA_LAYOUT, <<>>), LAMBDA a :
              Ok(a.pos, [kind |-> "Data", type_path |-> h.val[2],
                         instance_name |-> h.val[4]], FALSE))
    ELSE Fail("ValueError", h.pos))

\* WorldObjectProperties.unpack(window, size) on a window that ends at lim
WorldObjectPropertiesUnpackIn(s, p, lim, size) ==
    Then(WorldObjectPropertiesLoop(s, p, Inner(lim, p + size), <<>>, FALSE), LAMBDA l :
    Then(unpack_stream(s, l.pos, Inner(lim, p + size), 4), LAMBDA z :
        IF UInt32(z.val) # 0 THEN Fail("AssertionError", z.pos)
        ELSE Ok(z.pos, l.val, l.short)))

\* WorldObject.read_properties: a size, then the property list in a window
\* of that size
WorldObjectReadProperties(s, p) ==
    Then(SaveLayoutUnpack(s, p, UINT32_LAYOUT, <<>>), LAMBDA z :
    Then(WorldObjectPropertiesUnpack(s, z.pos, z.val[1]), LAMBDA w :
        Ok(w.pos, [properties |-> w.val, excess_data |-> <<>>,
                   block |-> z.pos, size |-> z.val[1]], w.short)))

\* count times ObjectReference.unpack: two length-encoded strings each
RECURSIVE ComponentsUnpack(_, _, _)
ComponentsUnpack(s, p, count) ==
    IF count = 0 THEN Ok(p, <<>>, FALSE)
    ELSE Then(UnpackLenEncodedStr(s, p, NoWindow), LAMBDA level :
         Then(UnpackLenEncodedStr(s, level.pos, NoWindow), LAMBDA path :
              ComponentsUnpack(s, path.pos, count - 1)))

\* DataWorldObject.read_properties: a size and a window of that size; the
\* parent names, the component count and the components are read from the
\* stream under the window; the property list takes what the window has
\* left, BinaryWindow refusing a negative size; whatever follows in the
\* window is excess, and the window must then be at its end
DataWorldObjectReadProperties(s, p) ==
    Then(SaveLayoutUnpack(s, p, UINT32_LAYOUT, <<>>), LAMBDA z :
    Then(SaveLayoutUnpack(s, z.pos, PROP_HEADER_LAYOUT, <<>>), LAMBDA h :
    Then(ComponentsUnpack(s, h.pos, h.val[3]), LAMBDA c :
    IF z.val[1] - (c.pos - z.pos) < 0 THEN Fail("AssertionError", c.pos)
    ELSE Then(WorldObjectPropertiesUnpackIn(s, c.pos, z.pos + z.val[1],
                                            z.val[1] - (c.pos - z.pos)), LAMBDA w :
         With(WRead(s, w.pos, z.pos + z.val[1], 0 - 1), LAMBDA excess :
         Then(end_of_stream([start |-> z.pos, end |-> z.pos + z.val[1]],
                            excess.pos, NoWindow), LAMBDA e :
              IF ~e.val THEN Fail("AssertionError", e.pos)
              ELSE Ok(e.pos, [properties |-> w.val, excess_data |-> excess.data,
                              block |-> z.pos, size |-> z.val[1]], w.short)))))))

\* world_objects[i].read_properties(stream)
ReadProperties(s, p, object) ==
    IF object.kind = "Data" THEN DataWorldObjectReadProperties(s, p)
    ELSE WorldObjectReadProperties(s, p)

\* count times WorldCollectedObject.unpack
RECURSIVE CollectedUnpack(_, _, _)
CollectedUnpack(s, p, count) ==
    IF count = 0 THEN Ok(p, <<>>, FALSE)
    ELSE Then(SaveLayoutUnpack(s, p, COLLECTED_LAYOUT, <<>>), LAMBDA c :
              CollectedUnpack(s, c.pos, count - 1))

\* SaveBody.unpack, lines 210-219: the collected objects, then the check
\* that the stream is at its end
SaveBodyCollected(s, p) ==
    Then(SaveLayoutUnpack(s, p, UINT32_LAYOUT, <<>>), LAMBDA m :
    Then(CollectedUnpack(s, m.pos, m.val[1]), LAMBDA c :
    With(StreamSeek(s, c.pos, 0, 2).pos, LAMBDA after :
        IF c.pos # after THEN Fail("AssertionError", after)
        ELSE Ok(StreamSeek(s, after, c.pos, 0).pos, m.val[1], FALSE))))

\* A SaveBody.unpack without the assert of line 206
SecondCountUnchecked(world_objects_property_count, world_object_count) == TRUE

\* SaveBody.unpack, line 206: the second count must be the first
SecondCountAgrees(world_objects_property_count, world_object_count) ==
    world_objects_property_count = world_object_count

(***************************************************************************)
(* The save body specification: SaveBody.unpack one stage at a time, with  *)
(* a trace of the object headers decoded, the second count read and the    *)
(* read_properties calls made.                                             *)
(***************************************************************************)
MaxObjects == 2     \* world objects in a body
MaxLeftover == 1    \* bytes after the property list of a block

EBlob(b) == E32(Len(b)) \o b

\* A world object header and the fixed fields of its variant; type 2 names
\* no variant.  The type path of every object is NameA, a path that no
\* list of Satisfactory type paths holds
ObjectKinds == {"Str", "Data", "Unknown"}

ObjectHeaderBytes(kind) ==
    CASE kind = "Str" ->
           E32(0) \o EBlob(NameA) \o EBlob(<<>>) \o EBlob(NameA) \o EBlob(NameB)
      [] kind = "Data" ->
           E32(1) \o EBlob(NameA) \o EBlob(<<>>) \o EBlob(NameB) \o EZeros(48)
      [] OTHER ->
           E32(2) \o EBlob(NameA) \o EBlob(<<>>) \o EBlob(NameA)

\* The bytes a block holds after its property list
Leftover(n) == [i \in 1..n |-> 7]

\* The block read_properties decodes, leftover bytes after its property
\* list: for a data object two parent names, one component and the
\* property list
ObjectPropertyBytes(kind, leftover) ==
    LET block == IF kind = "Data"
                 THEN EBlob(<<>>) \o EBlob(NameA) \o E32(1)
                      \o EStr(NameA) \o EStr(NameB)
                      \o PInt \o Terminator \o Leftover(leftover)
                 ELSE PBool \o Terminator \o Leftover(leftover)
    IN  E32(Len(block)) \o block

RECURSIVE ObjectsBytes(_, _, _)
ObjectsBytes(kinds, header, leftover) ==
    IF kinds = <<>> THEN <<>>
    ELSE (IF header THEN ObjectHeaderBytes(Head(kinds))
          ELSE ObjectPropertyBytes(Head(kinds), leftover))
         \o ObjectsBytes(Tail(kinds), header, leftover)

\* A body: kinds are its objects, leftover the bytes each property block
\* holds after its list, second is what its second count differs
\* from the first by, collected its collected objects, extra the bytes
\* after them, delta what declared_size differs from the bytes after it by
BodyBytes(f) ==
    LET content ==
            E32(Len(f.kinds)) \o ObjectsBytes(f.kinds, TRUE, 0)
            \o E32(Len(f.kinds) + f.second) \o ObjectsBytes(f.kinds, FALSE, f.leftover)
            \o E32(f.collected)
            \o (IF f.collected = 1 THEN EBlob(NameA) \o EBlob(NameB) ELSE <<>>)
            \o [i \in 1..f.extra |-> 0]
    IN  E32(Len(content) + f.delta) \o content

BodyFiles ==
    {f \in [kinds : UNION {[1..n -> ObjectKinds] : n \in 0..MaxObjects},
            second : {0 - 1, 0, 1}, collected : {0, 1}, extra : {0, 1},
            leftover : 0..MaxLeftover,
            delta : {0 - 1, 0, 1}] :
        Len(f.kinds) + f.second >= 0}

BodyInit ==
    /\ \E f \in BodyFiles :
          /\ stream = BodyBytes(f)
          /\ body = [done |-> FALSE, state |-> "start", err |-> "none",
                     data_size |-> 0, checked |-> 0,
                     world_object_count |-> 0, world_objects |-> <<>>,
                     world_objects_property_count |-> 0, i |-> 0,
                     props |-> <<>>,
                     trace |-> <<>>, file |-> f]
    /\ pos = 0
    /\ win = [start |-> 0, end |-> Len(stream)]
    /\ last = [op |-> "init", n |-> 0, from |-> 0, data |-> <<>>, err |-> "none"]
    /\ bm = Idle
    /\ pres = Idle /\ wres = Idle /\ dres = Idle
    /\ acall = Idle /\ ares = Idle /\ eres = Idle
    /\ sname = <<>> /\ sres = Idle
    /\ CodecIdle
    /\ scan = Idle /\ rb = <<>> /\ call = Idle

\* The exception r propagates out of SaveBody.unpack
Raised(b, r) == [b EXCEPT !.done = TRUE, !.state = "raised", !.err = r.err]

\* lines 194-200: data_size and its check
BodyDeclaredSize ==
    /\ body.state = "start"
    /\ \E r \in {SaveBodySizeCheck(stream, pos)} :
          /\ pos' = r.pos
          /\ body' = IF ~r.ok
                     THEN [Raised(body, r) EXCEPT
                             !.trace = Append(@, [op |-> "size", i |-> 0])]
                     ELSE [body EXCEPT !.state = "count", !.data_size = r.val,
                                       !.checked = r.pos,
                                       !.trace = Append(@, [op |-> "size", i |-> 0])]
    /\ UNCHANGED <<stream, windowVars, bm, propVars, arrayVars, structVars,
                   codecVars, scan, rb, call>>

\* line 202: world_object_count
BodyCount ==
    /\ body.state = "count"
    /\ \E r \in {SaveLayoutUnpack(stream, pos, UINT32_LAYOUT, <<>>)} :
          /\ pos' = r.pos
          /\ body' = IF ~r.ok THEN Raised(body, r)
                     ELSE [body EXCEPT
                             !.state = IF r.val[1] = 0 THEN "count2" ELSE "headers",
                             !.world_object_count = r.val[1]]
    /\ UNCHANGED <<stream, windowVars, bm, propVars, arrayVars, structVars,
                   codecVars, scan, rb, call>>

\* line 203: the next WorldObject.unpack of the list
BodyObject ==
    /\ body.state = "headers"
    /\ \E r \in {WorldObjectUnpack(stream, pos)} :
          /\ pos' = r.pos
          /\ body' = IF ~r.ok
                     THEN [Raised(body, r) EXCEPT
                             !.trace = Append(@, [op |-> "header",
                                                  i |-> Len(body.world_objects)])]
                     ELSE [body EXCEPT
                             !.state = IF Len(body.world_objects) + 1
                                            = body.world_object_count
                                       THEN "count2" ELSE "headers",
                             !.world_objects = Append(@, r.val),
                             !.trace = Append(@, [op |-> "header",
                                                  i |-> Len(body.world_objects)])]
    /\ UNCHANGED <<stream, windowVars, bm, propVars, arrayVars, structVars,
                   codecVars, scan, rb, call>>

\* lines 205-206: world_objects_property_count and its assert
BodySecondCount ==
    /\ body.state = "count2"
    /\ \E r \in {SaveLayoutUnpack(stream, pos, UINT32_LAYOUT, <<>>)} :
          /\ pos' = r.pos
          /\ body' =
               IF ~r.ok THEN Raised(body, r)
               ELSE IF ~SecondCountAgrees(r.val[1], body.world_object_count)
               THEN [Raised(body, Fail("AssertionError", r.pos)) EXCEPT
                       !.world_objects_property_count = r.val[1],
                       !.trace = Append(@, [op |-> "count2", i |-> r.val[1]])]
               ELSE [body EXCEPT
                       !.state = IF r.val[1] = 0 THEN "collected" ELSE "props",
                       !.world_objects_property_count = r.val[1],
                       !.trace = Append(@, [op |-> "count2", i |-> r.val[1]])]
    /\ UNCHANGED <<stream, windowVars, bm, propVars, arrayVars, structVars,
                   codecVars, scan, rb, call>>

\* lines 207-208: world_objects[i].read_properties(stream) for the next i
\* of range(world_objects_property_count)
BodyReadProperties ==
    /\ body.state = "props"
    /\ IF body.i + 1 > Len(body.world_objects)
       THEN /\ body' = Raised(body, Fail("IndexError", pos))
            /\ pos' = pos
       ELSE \E r \in {ReadProperties(stream, pos, body.world_objects[body.i + 1])} :
               /\ pos' = r.pos
               /\ body' = IF ~r.ok
                          THEN [Raised(body, r) EXCEPT
                                  !.trace = Append(@, [op |-> "read_properties",
                                                       i |-> body.i])]
                          ELSE [body EXCEPT
                                  !.state = IF body.i + 1
                                                 = body.world_objects_property_count
                                            THEN "collected" ELSE "props",
                                  !.i = body.i + 1,
                                  !.props = Append(@, r.val @@ [to |-> r.pos]),
                                  !.trace = Append(@, [op |-> "read_properties",
                                                       i |-> body.i])]
    /\ UNCHANGED <<stream, windowVars, bm, propVars, arrayVars, structVars,
                   codecVars, scan, rb, call>>

\* lines 210-219: the collected objects and the check that nothing is left
BodyCollected ==
    /\ body.state = "collected"
    /\ \E r \in {SaveBodyCollected(stream, pos)} :
          /\ pos' = r.pos
          /\ body' = IF ~r.ok THEN Raised(body, r)
                     ELSE [body EXCEPT !.done = TRUE, !.state = "returned"]
    /\ UNCHANGED <<stream, windowVars, bm, propVars, arrayVars, structVars,
                   codecVars, scan, rb, call>>

BodyNext ==
    \/ BodyDeclaredSize
    \/ BodyCount
    \/ BodyObject
    \/ BodySecondCount
    \/ BodyReadProperties
    \/ BodyCollected

SpecBody == BodyInit /\ [][BodyNext]_vars

(***************************************************************************)
(* The claims about the save body                                          *)
(***************************************************************************)
DeclaredSize == UInt32(SubSeq(stream, 1, 4))

\* The bytes between the end of the declared_size field and the end of
\* the stream
BytesAfterField == Len(stream) - 4

EventsOf(op) == {k \in DOMAIN body.trace : body.trace[k].op = op}

C20_PropertiesAfterHeaders ==
    LET tr == body.trace
        props == EventsOf("read_properties")
    IN  /\ \A k \in props :
              /\ \A h \in EventsOf("header") : h < k
              /\ Cardinality(EventsOf("header")) = body.world_object_count
              /\ Len(body.world_objects) = body.world_object_count
              /\ \E c \in EventsOf("count2") :
                    c < k /\ tr[c].i = body.world_object_count
              /\ tr[k].i = Cardinality({j \in props : j < k})
              /\ tr[k].i < body.world_object_count
        /\ body.state \in {"collected", "returned"} =>
              {tr[k].i : k \in props} = 0..(body.world_object_count - 1)
        /\ \A c \in EventsOf("count2") :
              tr[c].i # body.world_object_count =>
                  /\ body.state = "raised" /\ body.err = "AssertionError"
                  /\ props = {}

\* A body of a string object and a data object has been decoded, the
\* properties of both read in header order
C20_Witness ==
    /\ body.state = "returned"
    /\ body.world_object_count = MaxObjects
    /\ body.world_objects[1].kind # body.world_objects[2].kind
    /\ body.trace[Len(body.trace)] = [op |-> "read_properties", i |-> MaxObjects - 1]
    /\ body.trace[Len(body.trace) - 1] = [op |-> "read_properties", i |-> MaxObjects - 2]

\* The allowed_excess list holds six type paths of the game, each starting
\* with "/Game/FactoryGame/"; no type path of the model's bodies is one
allowed_excess == {}

\* The bytes the property block of read_properties call k holds after the
\* zero that ends its property list
LeftoverBytes(k) ==
    body.props[k].block + body.props[k].size
        - (body.props[k].to - Len(body.props[k].excess_data))

\* C22: bytes left over after an object's property list inside its declared
\* property block are accepted, and recorded as the object's excess data,
\* only when the object's type path is on the allow-list; for every other
\* object, leftover bytes make the decode fail.
C22_ExcessOnlyOnAllowList ==
    \A k \in DOMAIN body.props :
        body.world_objects[k].type_path \notin allowed_excess =>
            /\ LeftoverBytes(k) = 0
            /\ body.props[k].excess_data = <<>>

\* C28: after read_properties on any world object, the stream position
\* equals the position just after the 32-bit size field plus the declared
\* size, so the next object's property block is read from its own first
\* byte even when the block holds bytes after the property list's zero
\* terminator.
C28_ReadPropertiesEndsAtBlockEnd ==
    \A k \in DOMAIN body.props :
        /\ body.props[k].to = body.props[k].block + body.props[k].size
        /\ k > 1 => body.props[k].block = body.props[k - 1].block
                                            + body.props[k - 1].size + 4

(***************************************************************************)
(* The save header specification: SaveHeader.unpack on a header whose      *)
(* version field is drawn apart from the bytes that follow the shared      *)
(* part, so that a version reads or leaves bytes that are there either way *)
(***************************************************************************)
MaxMeta == 2        \* bytes of mod metadata
MaxVersion == 9      \* the header versions drawn go from 4 to this
HeaderVersions == 4..MaxVersion

\* The bytes written after the shared part: visibility, editor version,
\* mod metadata and mod flags
VersionedBytes(meta) == <<1>> \o E32(35) \o EBlob(meta) \o E32(6)

HeaderFiles ==
    [version : HeaderVersions,
     name : {<<>>, NameA},
     meta : {[i \in 1..n |-> 64 + i] : n \in 0..MaxMeta},
     filler : {0, 2},
     cut : {0, 1}]

\* Where the shared part of the header of file f ends
SharedEnd(f) == 12 + 4 + (4 + Len(f.name)) + 4 + 12

HeaderFileBytes(f) ==
    LET b == E32(f.version) \o E32(0) \o E32(0)
             \o EBlob(<<>>) \o EBlob(f.name) \o EBlob(<<>>)
             \o E32(0) \o E64(0)
             \o VersionedBytes(f.meta) \o [i \in 1..f.filler |-> 9]
    IN  SubSeq(b, 1, Len(b) - f.cut)

HeaderInit ==
    /\ \E f \in HeaderFiles :
          /\ stream = HeaderFileBytes(f)
          /\ call = [done |-> FALSE, op |-> "SaveHeader.unpack", file |-> f]
    /\ pos = 0
    /\ win = [start |-> 0, end |-> Len(stream)]
    /\ last = [op |-> "init", n |-> 0, from |-> 0, data |-> <<>>, err |-> "none"]
    /\ bm = Idle
    /\ pres = Idle /\ wres = Idle /\ dres = Idle
    /\ acall = Idle /\ ares = Idle /\ eres = Idle
    /\ sname = <<>> /\ sres = Idle
    /\ CodecIdle
    /\ scan = Idle /\ rb = <<>> /\ body = Idle

HeaderUnpack ==
    /\ ~call.done
    /\ \E r \in {SaveHeaderUnpack(stream, pos)} :
          /\ pos' = r.pos
          /\ call' = [call EXCEPT !.done = TRUE] @@ [r |-> r]
    /\ UNCHANGED <<stream, windowVars, bm, propVars, arrayVars, structVars,
                   codecVars, scan, rb, body>>

HeaderNext == HeaderUnpack

SpecHeader == HeaderInit /\ [][HeaderNext]_vars

\* The bytes SaveHeader.unpack takes after the shared part, by version and
\* mod metadata length
VersionedSize(version, meta_len) ==
    IF version >= 8 THEN 1 + 4 + (4 + meta_len) + 4
    ELSE IF version >= 7 THEN 1 + 4
    ELSE IF version >= 5 THEN 1
    ELSE 0

\* C21: SaveHeader.unpack reads session_visibility if and only if the
\* format version is >= 5, editor_version if and only if it is >= 7, and
\* mod metadata plus mod flags if and only if it is >= 8; fields not read
\* are None and consume no bytes, so the bytes consumed after the shared
\* part depend only on the version and on the mod-metadata length.
C21_VersionGatedTail ==
    (call.done /\ call.op = "SaveHeader.unpack" /\ call.r.ok) =>
        LET h == call.r.val
            f == call.file
        IN  /\ h.version = f.version
            /\ h.session_visibility = (IF f.version >= 5 THEN <<<<1>>>> ELSE <<>>)
            /\ h.editor_version = (IF f.version >= 7 THEN <<35>> ELSE <<>>)
            /\ h.meta = (IF f.version >= 8 THEN <<f.meta>> ELSE <<>>)
            /\ h.data_size = (IF f.version >= 8 THEN <<6>> ELSE <<>>)
            /\ pos - SharedEnd(f) = VersionedSize(f.version, Len(f.meta))

\* A version 7 header has been read from bytes that go on with mod
\* metadata: the editor version is taken, the metadata left in the stream
C21_Witness ==
    /\ call.done /\ call.op = "SaveHeader.unpack" /\ call.r.ok
    /\ call.file.version = 7 /\ Len(call.file.meta) = MaxMeta
    /\ call.r.val.editor_version = <<35>> /\ call.r.val.meta = <<>>
    /\ pos = SharedEnd(call.file) + 5

(***************************************************************************)
(* The failure specification: what a decode failure that reaches the       *)
(* caller carries.  Property.unpack is called on the stream as the save    *)
(* decoder calls it, and inside as_parsing_window.                         *)
(***************************************************************************)
NoOffset == 0 - 1

\* The offset the exception of result r carries.  ParsingError has
\* stream_pos; the NotImplementedError of Property.unpack names
\* stream.tell(); the asserts, struct.error, ValueError and the other
\* exceptions of the decoders are raised without a position
ExceptionOffset(r) ==
    CASE r.err = "ParsingError" -> r.stream_pos
      [] r.err = "CantUnpackPropertyType" -> r.pos
      [] OTHER -> NoOffset

\* as_parsing_window around a body that gave r, entered with the stream at
\* start: every exception but a ParsingError becomes
\* ParsingError(start, now), whose stream_pos is its first argument
as_parsing_window(start, r) ==
    IF r.ok \/ r.err = "ParsingError" THEN r
    ELSE Fail("ParsingError", r.pos) @@ [stream_pos |-> start, now |-> r.pos]

ParsingInit ==
    /\ stream \in Inputs
    /\ pos = 0
    /\ win = [start |-> 0, end |-> Len(stream)]
    /\ last = [op |-> "init", n |-> 0, from |-> 0, data |-> <<>>, err |-> "none"]
    /\ bm = Idle
    /\ pres = Idle /\ wres = Idle /\ dres = Idle
    /\ acall = Idle /\ ares = Idle /\ eres = Idle
    /\ sname = <<>> /\ sres = Idle
    /\ CodecIdle /\ SaveIdle

\* Property.unpack(stream), as WorldObjectProperties.unpack calls it
ParseProperty ==
    /\ ~call.done
    /\ \E r \in {PropertyUnpack(stream, pos, NoWindow)} :
          /\ pos' = r.pos
          /\ call' = [done |-> TRUE, op |-> "Property.unpack", start |-> pos,
                      inner |-> r, r |-> r, offset |-> ExceptionOffset(r)]
    /\ UNCHANGED <<stream, windowVars, bm, propVars, arrayVars, structVars,
                   codecVars, scan, rb, body>>

\* with as_parsing_window(stream): Property.unpack(stream)
ParseInWindow ==
    /\ ~call.done
    /\ \E inner \in {PropertyUnpack(stream, pos, NoWindow)} :
       \E r \in {as_parsing_window(pos, inner)} :
          /\ pos' = r.pos
          /\ call' = [done |-> TRUE, op |-> "as_parsing_window", start |-> pos,
                      inner |-> inner, r |-> r, offset |-> ExceptionOffset(r)]
    /\ UNCHANGED <<stream, windowVars, bm, propVars, arrayVars, structVars,
                   codecVars, scan, rb, body>>

ParsingNext == ParseProperty \/ ParseInWindow

SpecParsing == ParsingInit /\ [][ParsingNext]_vars

\* C23: every fatal decode failure that reaches the caller (a violated
\* must-be-zero or must-match check, a bounds violation, an unknown type)
\* carries the absolute offset in the outermost byte source at the point
\* where the failure occurred, not a window-relative offset and not the
\* offset at which the enclosing parse began.
C23_FailureCarriesOffset ==
    (call.done /\ ~call.inner.ok /\ ~call.inner.none) =>
        call.offset = call.inner.pos

(***************************************************************************)
(* The native struct specification: pack and unpack of the fixed-layout    *)
(* structures (satisfactory/structures.py), a value packed to an empty     *)
(* stream and read back from its start, or read from bytes that hold it.   *)
(***************************************************************************)
MaxFloat == 2     \* the floats drawn are 0.0, 1.0, 2.0, ... up to this

\* struct 'f' of the float whose IEEE-754 fields are f
Float32Bytes(f) ==
    <<f.fraction % 256, (f.fraction \div 256) % 256,
      (f.fraction \div 65536) + 128 * (f.exponent % 2),
      128 * f.sign + f.exponent \div 2>>

\* 0.0, 1.0, 2.0, 4.0, ...: the float 2^(k-1) for k >= 1
FloatOf(k) ==
    IF k = 0 THEN [sign |-> 0, exponent |-> 0, fraction |-> 0]
    ELSE [sign |-> 0, exponent |-> 126 + k, fraction |-> 0]
FloatValues == {FloatOf(k) : k \in 0..MaxFloat}

\* 0 <= value <= 1 for a float and 0 <= value <= 255 for an int
Color_is_valid(value) ==
    value.sign = 0 /\ (value.exponent < 127 \/ (value.exponent = 127 /\ value.fraction = 0))
Color32_is_byte(value) == 0 <= value.n /\ value.n <= 255

NativeLayoutCount ==
    [cls \in {"Vector2", "Vector3", "Vector4", "Color32", "Color"} |->
        CASE cls = "Vector2" -> 2 [] cls = "Vector3" -> 3 [] OTHER -> 4]

NativeValues ==
    UNION {{[cls |-> cls, data |-> d] : d \in [1..NativeLayoutCount[cls] -> FloatValues]} :
              cls \in {"Vector2", "Vector3", "Vector4", "Color"}}
    \cup {[cls |-> "Color32", data |-> d] :
              d \in [1..4 -> {IntV(0), IntV(255), IntV(256)}]}
    \cup {[cls |-> "GuidStructure", data |-> <<BytesV(b)>>] : b \in {EZeros(16), EBytes(16)}}

\* is_valid of the value, for the classes that have it
NativeValid(x) ==
    CASE x.cls = "Color" -> \A k \in DOMAIN x.data : Color_is_valid(x.data[k])
      [] x.cls = "Color32" -> \A k \in DOMAIN x.data : Color32_is_byte(x.data[k])
      [] OTHER -> TRUE

\* The bytes the layout of the class holds for a valid value
RECURSIVE NativeBytes(_, _)
NativeBytes(cls, data) ==
    IF data = <<>> THEN <<>>
    ELSE (CASE cls = "Color32" -> <<Head(data).n>>
            [] cls = "GuidStructure" -> Head(data).v
            [] OTHER -> Float32Bytes(Head(data)))
         \o NativeBytes(cls, Tail(data))

\* StructIO.pack(layout, data): layout.pack(data) hands struct.pack the one
\* object data; a layout of count items takes count arguments, and an item
\* takes a number or a bytes object, never a tuple
StructIOPack(out, count, data) ==
    PackError("struct.error", out)

\* x.pack(stream) onto a stream that holds out: Color32 and Color raise
\* ValueError unless is_valid; GuidStructure has no pack at all
NativePack(x, out) ==
    CASE x.cls = "GuidStructure" -> PackError("AttributeError", out)
      [] x.cls \in {"Color32", "Color"} /\ ~NativeValid(x) -> PackError("ValueError", out)
      [] OTHER -> StructIOPack(out, NativeLayoutCount[x.cls], x.data)

\* cls.unpack(stream), and the fields of the value it builds: "4c" gives
\* four bytes objects of one byte each
NativeFieldsUnpack(cls, s, p) ==
    CASE cls = "GuidStructure" ->
           Then(GuidStructureUnpack(s, p, NoWindow), LAMBDA r :
                Ok(r.pos, <<BytesV(r.val.data)>>, r.short))
      [] cls = "Color32" ->
           Then(Color32Unpack(s, p, NoWindow), LAMBDA r :
                Ok(r.pos, [k \in 1..4 |-> BytesV(<<r.val.data[k]>>)], FALSE))
      [] OTHER ->
           Then(FloatsUnpack(s, p, NoWindow, NativeLayoutCount[cls], cls), LAMBDA r :
                Ok(r.pos, r.val.data, FALSE))

NativeInit ==
    /\ \E x \in NativeValues, given \in BOOLEAN :
          /\ given => (x.cls = "Color32" => NativeValid(x))
          /\ stream = IF given THEN NativeBytes(x.cls, x.data) ELSE <<>>
          /\ call = [done |-> FALSE, op |-> "native", x |-> x, given |-> given,
                     packed |-> Idle, unpacked |-> Idle]
    /\ pos = 0
    /\ win = [start |-> 0, end |-> Len(stream)]
    /\ last = [op |-> "init", n |-> 0, from |-> 0, data |-> <<>>, err |-> "none"]
    /\ bm = Idle
    /\ pres = Idle /\ wres = Idle /\ dres = Idle
    /\ acall = Idle /\ ares = Idle /\ eres = Idle
    /\ sname = <<>> /\ sres = Idle
    /\ CodecIdle
    /\ scan = Idle /\ rb = <<>> /\ body = Idle

\* x.pack(stream)
NativePackStep ==
    /\ ~call.given /\ ~call.packed.done
    /\ \E r \in {NativePack(call.x, stream)} :
          /\ stream' = r.out
          /\ pos' = Len(r.out)
          /\ call' = [call EXCEPT !.packed = r]
    /\ UNCHANGED <<windowVars, bm, propVars, arrayVars, structVars,
                   codecVars, scan, rb, body>>

\* stream.seek(0); cls.unpack(stream)
NativeUnpackStep ==
    /\ call.given \/ call.packed.done
    /\ ~call.unpacked.done
    /\ \E r \in {NativeFieldsUnpack(call.x.cls, stream, 0)} :
          /\ pos' = r.pos
          /\ call' = [call EXCEPT !.unpacked = r, !.done = TRUE]
    /\ UNCHANGED <<stream, windowVars, bm, propVars, arrayVars, structVars,
                   codecVars, scan, rb, body>>

NativeNext == NativePackStep \/ NativeUnpackStep

SpecNative == NativeInit /\ [][NativeNext]_vars

\* C24: for every fixed-layout native struct (Vector2, Vector3,
\* Vector4/Quat, Color32, Color, GUID) and every valid value x, decoding the
\* bytes produced by encoding x returns a value equal to x, and the encoder
\* reports the same number of bytes as the decoder consumes.
C24_NativeRoundTrip ==
    (call.op = "native" /\ ~call.given /\ NativeValid(call.x) /\ call.packed.done) =>
        /\ call.packed.ok
        /\ call.unpacked.done =>
              /\ call.unpacked.ok
              /\ call.unpacked.val = call.x.data
              /\ call.unpacked.pos = call.packed.ret

(***************************************************************************)
(* The string specification: a str through shared.str_to_buffer and        *)
(* buffer_to_str, and through StructIO.pack_len_encoded_str and            *)
(* unpack_len_encoded_str.  A str is the sequence of its code points.      *)
(***************************************************************************)
MaxStr == 2     \* characters of a string

\* NUL, "A" and "é", whose UTF-8 encoding takes two bytes
StrChars == {0, 65, 233}
Strings == UNION {[1..n -> StrChars] : n \in 0..MaxStr}

\* str.encode(): UTF-8 of code points below 2048
RECURSIVE Utf8Encode(_)
Utf8Encode(str) ==
    IF str = <<>> THEN <<>>
    ELSE (IF Head(str) < 128 THEN <<Head(str)>>
          ELSE <<192 + Head(str) \div 64, 128 + (Head(str) % 64)>>)
         \o Utf8Encode(Tail(str))

\* bytes.decode(): UnicodeDecodeError on a byte that starts no character or
\* a character cut short (the sequences of up to two bytes)
RECURSIVE Utf8Decode(_, _)
Utf8Decode(b, acc) ==
    IF b = <<>> THEN Ok(0, acc, FALSE)
    ELSE IF b[1] < 128 THEN Utf8Decode(Tail(b), Append(acc, b[1]))
    ELSE IF b[1] >= 194 /\ b[1] < 224 /\ Len(b) >= 2 /\ b[2] >= 128 /\ b[2] < 192
    THEN Utf8Decode(SubSeq(b, 3, Len(b)), Append(acc, 64 * (b[1] - 192) + b[2] - 128))
    ELSE Fail("UnicodeDecodeError", 0)

\* shared.str_to_buffer(buffer): buffer[-1] is a str and __NULL_INT the int
\* 0, which are never equal, and __NULL is bytes: adding it to the str
\* raises TypeError for every str that is not empty
str_to_buffer(buffer, enforce_null) ==
    IF enforce_null /\ Len(buffer) > 0
    THEN Fail("TypeError", 0)
    ELSE Ok(0, Utf8Encode(buffer), FALSE)

\* shared.buffer_to_str(buffer) with its decode
buffer_to_str_decode(buffer) == Utf8Decode(buffer_to_str(buffer), <<>>)

\* StructIO.pack_len_encoded_str(value, null_terminated=...) onto a stream
\* that holds out
pack_len_encoded_str(out, value, null_terminated) ==
    With(IF null_terminated /\ Len(value) > 0 /\ value[Len(value)] # 0
         THEN value \o <<0>> ELSE value, LAMBDA v :
    With(Utf8Encode(v), LAMBDA buffer :
        Packed(out \o E32(Len(buffer)) \o buffer, 4 + Len(buffer))))

\* StructIO.unpack_len_encoded_str(null_terminated=...)
unpack_len_encoded_str(s, p, null_terminated) ==
    Then(StructIOUnpack(s, p, NoWindow, 4), LAMBDA c :
    With(StreamRead(s, c.pos, UInt32(c.val)), LAMBDA r :
    With(Utf8Decode(r.data, <<>>), LAMBDA d :
        IF ~d.ok THEN Fail("ValueError", r.pos)
        ELSE IF ~null_terminated THEN Ok(r.pos, d.val, FALSE)
        ELSE IF Len(d.val) > 0 /\ d.val[Len(d.val)] # 0 THEN Fail("ValueError", r.pos)
        ELSE Ok(r.pos, SubSeq(d.val, 1, Len(d.val) - 1), FALSE))))

StrInit ==
    /\ \E s \in Strings, nt \in BOOLEAN :
          call = [done |-> FALSE, op |-> "str", s |-> s, null_terminated |-> nt,
                  buffer |-> Idle, str |-> Idle, packed |-> Idle, unpacked |-> Idle]
    /\ stream = <<>>
    /\ pos = 0
    /\ win = [start |-> 0, end |-> 0]
    /\ last = [op |-> "init", n |-> 0, from |-> 0, data |-> <<>>, err |-> "none"]
    /\ bm = Idle
    /\ pres = Idle /\ wres = Idle /\ dres = Idle
    /\ acall = Idle /\ ares = Idle /\ eres = Idle
    /\ sname = <<>> /\ sres = Idle
    /\ CodecIdle
    /\ scan = Idle /\ rb = <<>> /\ body = Idle

\* str_to_buffer(s)
StrToBuffer ==
    /\ call.op = "str" /\ ~call.buffer.done
    /\ call' = [call EXCEPT !.buffer = str_to_buffer(call.s, TRUE)]
    /\ UNCHANGED <<stream, pos, windowVars, bm, propVars, arrayVars, structVars,
                   codecVars, scan, rb, body>>

\* buffer_to_str of what str_to_buffer returned
BufferToStr ==
    /\ call.op = "str" /\ call.buffer.done /\ call.buffer.ok /\ ~call.str.done
    /\ call' = [call EXCEPT !.str = buffer_to_str_decode(call.buffer.val)]
    /\ UNCHANGED <<stream, pos, windowVars, bm, propVars, arrayVars, structVars,
                   codecVars, scan, rb, body>>

\* StructIO(stream).pack_len_encoded_str(s, null_terminated=nt)
PackLenEncodedStr ==
    /\ call.op = "str" /\ ~call.packed.done
    /\ \E r \in {pack_len_encoded_str(stream, call.s, call.null_terminated)} :
          /\ stream' = r.out
          /\ pos' = Len(r.out)
          /\ call' = [call EXCEPT !.packed = r]
    /\ UNCHANGED <<windowVars, bm, propVars, arrayVars, structVars,
                   codecVars, scan, rb, body>>

\* stream.seek(0); StructIO(stream).unpack_len_encoded_str(null_terminated=nt)
UnpackLenEncodedStrStep ==
    /\ call.op = "str" /\ call.packed.done /\ ~call.unpacked.done
    /\ \E r \in {unpack_len_encoded_str(stream, 0, call.null_terminated)} :
          /\ pos' = r.pos
          /\ call' = [call EXCEPT !.unpacked = r]
    /\ UNCHANGED <<stream, windowVars, bm, propVars, arrayVars, structVars,
                   codecVars, scan, rb, body>>

StrNext == StrToBuffer \/ BufferToStr \/ PackLenEncodedStr \/ UnpackLenEncodedStrStep

SpecStr == StrInit /\ [][StrNext]_vars

\* C25: encoding a string with the NUL-terminator convention and decoding
\* it with the same convention returns the original string:
\* buffer_to_str(str_to_buffer(s)) == s for every string s, and
\* StructIO.unpack_len_encoded_str after StructIO.pack_len_encoded_str with
\* the same null_terminated setting returns s.
C25_StringRoundTrip ==
    call.op = "str" =>
        /\ call.buffer.done => call.buffer.ok
        /\ call.str.done => (call.str.ok /\ call.str.val = call.s)
        /\ call.unpacked.done => (call.unpacked.ok /\ call.unpacked.val = call.s)

(***************************************************************************)
(* serialization_tools.magic: reading and checking a magic word            *)
(***************************************************************************)
MaxMagic == 2       \* the 's' layouts are "1s" .. "<MaxMagic>s"

MagicByteValues == {1, 2}

\* A layout of structx.Struct: "<n>s" (n bytes, unpacked to bytes) or "<H"
\* (two bytes, unpacked to an unsigned little-endian integer)
MagicLayouts ==
    {[code |-> "s", size |-> n] : n \in 1..MaxMagic} \cup {[code |-> "H", size |-> 2]}

\* The value read_magic_word returns when the layout cannot be unpacked
NoneV == [t |-> "none", n |-> 0, v |-> <<>>]

\* struct.Struct.unpack(buffer)[0]: struct.error unless the buffer holds
\* exactly layout.size bytes
LayoutUnpack(layout, buffer) ==
    IF Len(buffer) # layout.size THEN Fail("struct.error", 0)
    ELSE IF layout.code = "s" THEN Ok(0, BytesV(buffer), FALSE)
    ELSE Ok(0, IntV(buffer[1] + 256 * buffer[2]), FALSE)

\* struct.Struct.pack(word) for a word of the layout's type
LayoutPack(layout, word) ==
    IF layout.code = "s" THEN word.v ELSE <<word.n % 256, word.n \div 256>>

\* The words of a layout: every value the layout can unpack from the bytes
\* of the model
MagicWords(layout) ==
    {LayoutUnpack(layout, b).val : b \in [1..layout.size -> MagicByteValues]}

\* read_magic_word without the seek of its finally clause
read_magic_word_no_seek(s, p, layout, advance) ==
    With(StreamRead(s, p, layout.size), LAMBDA r :
    With(LayoutUnpack(layout, r.data), LAMBDA u :
        [magic |-> IF u.ok THEN u.val ELSE NoneV, pos |-> r.pos]))

\* magic.read_magic_word(stream, layout, advance): the value read, or None
\* on struct.error, and the position the call leaves
read_magic_word(s, p, layout, advance) ==
    With(StreamRead(s, p, layout.size), LAMBDA r :
    With(LayoutUnpack(layout, r.data), LAMBDA u :
        [magic |-> IF u.ok THEN u.val ELSE NoneV,
         pos |-> IF advance THEN r.pos ELSE p]))

\* check_magic_word answering whether a word could be read at all
check_magic_word_any(s, p, layout, word, advance) ==
    With(read_magic_word(s, p, layout, advance), LAMBDA m :
        m @@ [result |-> m.magic # NoneV])

\* magic.check_magic_word(stream, layout, word, advance)
check_magic_word(s, p, layout, word, advance) ==
    With(read_magic_word(s, p, layout, advance), LAMBDA m :
        m @@ [result |-> m.magic = word])

\* magic.assert_magic_word(stream, layout, word, advance): raised is set
\* when the assert fails
assert_magic_word(s, p, layout, word, advance) ==
    With(read_magic_word(s, p, layout, advance), LAMBDA m :
        m @@ [raised |-> m.magic # word])

MagicStreams == UNION {[1..n -> MagicByteValues] : n \in 0..(MaxMagic + 1)}

MagicInit ==
    /\ stream \in MagicStreams
    /\ pos \in 0..Len(stream)
    /\ \E layout \in MagicLayouts, advance \in BOOLEAN :
       \E word \in MagicWords(layout) :
          call = [done |-> FALSE, op |-> "magic", fn |-> "none", layout |-> layout,
                  word |-> word, advance |-> advance, origin |-> pos,
                  magic |-> NoneV, result |-> FALSE, raised |-> FALSE]
    /\ win = [start |-> 0, end |-> 0]
    /\ last = [op |-> "init", n |-> 0, from |-> 0, data |-> <<>>, err |-> "none"]
    /\ bm = Idle
    /\ pres = Idle /\ wres = Idle /\ dres = Idle
    /\ acall = Idle /\ ares = Idle /\ eres = Idle
    /\ sname = <<>> /\ sres = Idle
    /\ CodecIdle
    /\ scan = Idle /\ rb = <<>> /\ body = Idle

\* read_magic_word(stream, layout, advance)
ReadMagicWord ==
    /\ call.op = "magic" /\ ~call.done
    /\ \E m \in {read_magic_word(stream, pos, call.layout, call.advance)} :
          /\ pos' = m.pos
          /\ call' = [call EXCEPT !.done = TRUE, !.fn = "read", !.magic = m.magic]
    /\ UNCHANGED <<stream, windowVars, bm, propVars, arrayVars, structVars,
                   codecVars, scan, rb, body>>

\* check_magic_word(stream, layout, word, advance)
CheckMagicWord ==
    /\ call.op = "magic" /\ ~call.done
    /\ \E m \in {check_magic_word(stream, pos, call.layout, call.word, call.advance)} :
          /\ pos' = m.pos
          /\ call' = [call EXCEPT !.done = TRUE, !.fn = "check", !.magic = m.magic,
                                  !.result = m.result]
    /\ UNCHANGED <<stream, windowVars, bm, propVars, arrayVars, structVars,
                   codecVars, scan, rb, body>>

\* assert_magic_word(stream, layout, word, advance)
AssertMagicWord ==
    /\ call.op = "magic" /\ ~call.done
    /\ \E m \in {assert_magic_word(stream, pos, call.layout, call.word, call.advance)} :
          /\ pos' = m.pos
          /\ call' = [call EXCEPT !.done = TRUE, !.fn = "assert", !.magic = m.magic,
                                  !.raised = m.raised]
    /\ UNCHANGED <<stream, windowVars, bm, propVars, arrayVars, structVars,
                   codecVars, scan, rb, body>>

MagicNext == ReadMagicWord \/ CheckMagicWord \/ AssertMagicWord

SpecMagic == MagicInit /\ [][MagicNext]_vars

\* The bytes that remain in the stream at the position the call started from
MagicRemaining == Len(stream) - call.origin

\* C26: read_magic_word, check_magic_word and assert_magic_word called with
\* advance=False leave the stream position where it was on every outcome
\* (match, mismatch, AssertionError); called with advance=True on a stream
\* that holds at least layout.size bytes they leave it advanced by
\* layout.size, also when the word does not match.
C26_AdvanceControlsPosition ==
    (call.op = "magic" /\ call.done) =>
        /\ ~call.advance => pos = call.origin
        /\ (call.advance /\ MagicRemaining >= call.layout.size)
              => pos = call.origin + call.layout.size

\* C26 witness: an advancing assert_magic_word read a whole word, raised
\* because it was not the expected one, and left the stream layout.size
\* further on
C26_Witness ==
    /\ call.op = "magic" /\ call.done /\ call.fn = "assert" /\ call.raised
    /\ call.advance /\ MagicRemaining >= call.layout.size
    /\ call.magic # NoneV
    /\ pos = call.origin + call.layout.size

\* The next layout.size bytes of the stream unpack to the word
NextBytesUnpackToWord ==
    /\ MagicRemaining >= call.layout.size
    /\ LayoutPack(call.layout, call.word)
          = SubSeq(stream, call.origin + 1, call.origin + call.layout.size)

\* C27: check_magic_word returns True if and only if the next layout.size
\* bytes of the stream unpack to word; when fewer than layout.size bytes
\* remain it returns False without raising, and read_magic_word returns
\* None.
C27_CheckIffWordAhead ==
    (call.op = "magic" /\ call.done) =>
        /\ call.fn = "check" => (call.result <=> NextBytesUnpackToWord)
        /\ (call.fn = "check" /\ MagicRemaining < call.layout.size) => ~call.result
        /\ (call.fn = "read" /\ MagicRemaining < call.layout.size) => call.magic = NoneV

\* C27 witness: a check on a stream that holds too few bytes answered False
C27_Witness ==
    /\ call.op = "magic" /\ call.done /\ call.fn = "check"
    /\ MagicRemaining < call.layout.size /\ MagicRemaining > 0
    /\ ~call.result /\ call.magic = NoneV

(***************************************************************************)
(* StructProperty.unpack of the native structures: the declared size of    *)
(* the property against the byte count of the structure's decoder.         *)
(***************************************************************************)
MaxSlack == 1       \* declared sizes run from 0 to the decoder's byte count + MaxSlack

BoxName == <<66, 111, 120>>

\* The bytes a decoder of structures._unpack_map reads: Box two Vector3 and
\* one byte, GuidStructure 16 bytes, Vector3 the layout "3f"
NativeStructSize(cls) ==
    CASE cls = "Box" -> 25
      [] cls = "GuidStructure" -> 16
      [] cls = "Vector3" -> 12

NativeStructNames == {BoxName, GuidName, VectorName}

\* The bytes a decoded structure was built from
StructureBytes(structure) ==
    CASE structure.cls = "Box" ->
            4 * Len(structure.data[1]) + 4 * Len(structure.data[2]) + Len(structure.data[3])
      [] structure.cls = "GuidStructure" -> Len(structure.data)
      [] structure.cls = "Vector3" -> 4 * Len(structure.data)

\* A StructProperty of the given struct type and declared size whose payload
\* holds `present` bytes
StructPropertyBytes(name, declared, present) ==
    EHeader(NameA, "Struct", declared, 0) \o EStr(name) \o EZeros(16) \o <<0>>
        \o EBytes(present)

NativeStructInit ==
    /\ \E name \in NativeStructNames :
       \E declared \in 0..(NativeStructSize(StructDecoder(name)) + MaxSlack) :
       \E present \in {declared, IF declared > 0 THEN declared - 1 ELSE 0} :
          /\ call = [done |-> FALSE, op |-> "struct", name |-> name,
                     cls |-> StructDecoder(name), declared |-> declared,
                     present |-> present]
          /\ stream = StructPropertyBytes(name, declared, present)
    /\ pos = 0
    /\ win = [start |-> 0, end |-> 0]
    /\ last = [op |-> "init", n |-> 0, from |-> 0, data |-> <<>>, err |-> "none"]
    /\ bm = Idle
    /\ pres = Idle /\ wres = Idle /\ dres = Idle
    /\ acall = Idle /\ ares = Idle /\ eres = Idle
    /\ sname = <<>> /\ sres = Idle
    /\ CodecIdle
    /\ scan = Idle /\ rb = <<>> /\ body = Idle

\* Property.unpack(stream) on the StructProperty
UnpackStructProperty ==
    /\ call.op = "struct" /\ ~call.done
    /\ \E r \in {PropertyUnpack(stream, 0, NoWindow)} :
          /\ pres' = r
          /\ pos' = r.pos
    /\ call' = [call EXCEPT !.done = TRUE]
    /\ UNCHANGED <<stream, windowVars, bm, wres, dres, arrayVars, structVars,
                   codecVars, scan, rb, body>>

NativeStructNext == UnpackStructProperty

SpecNativeStruct == NativeStructInit /\ [][NativeStructNext]_vars

\* C29: a native struct decoder consumes exactly its fixed byte count or
\* fails: a StructProperty of type Guid whose declared size is smaller than
\* 16, and a Box whose window ends before its final byte, is rejected, and
\* no structure is built from fewer bytes than its layout requires.
C29_NativeStructExactOrRejected ==
    (call.op = "struct" /\ call.done) =>
        /\ call.declared < NativeStructSize(call.cls) => ~pres.ok
        /\ pres.ok =>
              StructureBytes(pres.val.data.structure) = NativeStructSize(call.cls)

(***************************************************************************)
(* StreamPtr (serialization_tools/ioutil.py and StructIO/structio.py): a   *)
(* pointer made for a stream and an offset, and its jump_to scope.         *)
(***************************************************************************)

\* StreamPtr.__init__: `offset or stream.tell()` -- the offset kept is the
\* position of the stream when the offset given is falsy
StreamPtrOffset(offset, tell) == IF offset = 0 THEN tell ELSE offset

StreamPtrInit ==
    /\ stream = [i \in 1..StreamLen |-> i]
    /\ pos \in 0..StreamLen
    /\ call = [done |-> FALSE, op |-> "ptr", state |-> "none", k |-> 0, offset |-> 0,
               whence |-> 0, prev |-> 0]
    /\ win = [start |-> 0, end |-> 0]
    /\ last = [op |-> "init", n |-> 0, from |-> 0, data |-> <<>>, err |-> "none"]
    /\ bm = Idle
    /\ pres = Idle /\ wres = Idle /\ dres = Idle
    /\ acall = Idle /\ ares = Idle /\ eres = Idle
    /\ sname = <<>> /\ sres = Idle
    /\ CodecIdle
    /\ scan = Idle /\ rb = <<>> /\ body = Idle

\* ptr = StreamPtr(stream, offset=k)
StreamPtrNew(k) ==
    /\ call.op = "ptr" /\ call.state = "none"
    /\ call' = [call EXCEPT !.state = "made", !.k = k,
                            !.offset = StreamPtrOffset(k, pos)]
    /\ UNCHANGED <<stream, pos, windowVars, bm, propVars, arrayVars, structVars,
                   codecVars, scan, rb, body>>

\* the stream is read between the construction of the pointer and its use
StreamPtrReadBefore(n) ==
    /\ call.op = "ptr" /\ call.state = "made"
    /\ pos < Len(stream)
    /\ pos' = StreamRead(stream, pos, n).pos
    /\ UNCHANGED <<stream, call, windowVars, bm, propVars, arrayVars, structVars,
                   codecVars, scan, rb, body>>

\* with ptr.jump_to(): -- prev = stream.tell(); stream.seek(offset, whence)
StreamPtrJumpTo ==
    /\ call.op = "ptr" /\ call.state = "made"
    /\ pos' = StreamSeek(stream, pos, call.offset, call.whence).pos
    /\ call' = [call EXCEPT !.state = "entered", !.prev = pos]
    /\ UNCHANGED <<stream, windowVars, bm, propVars, arrayVars, structVars,
                   codecVars, scan, rb, body>>

\* a read in the body of the scope
StreamPtrBodyRead(n) ==
    /\ call.op = "ptr" /\ call.state \in {"entered", "inside"}
    /\ pos < Len(stream)
    /\ pos' = StreamRead(stream, pos, n).pos
    /\ call' = [call EXCEPT !.state = "inside"]
    /\ UNCHANGED <<stream, windowVars, bm, propVars, arrayVars, structVars,
                   codecVars, scan, rb, body>>

\* the body completes: stream.seek(prev)
StreamPtrExit ==
    /\ call.op = "ptr" /\ call.state \in {"entered", "inside"}
    /\ pos' = StreamSeek(stream, pos, call.prev, 0).pos
    /\ call' = [call EXCEPT !.state = "exited", !.done = TRUE]
    /\ UNCHANGED <<stream, windowVars, bm, propVars, arrayVars, structVars,
                   codecVars, scan, rb, body>>

StreamPtrNext ==
    \/ \E k \in 0..MaxOffset : StreamPtrNew(k)
    \/ \E n \in 1..MaxReadN : StreamPtrReadBefore(n)
    \/ StreamPtrJumpTo
    \/ \E n \in 1..MaxReadN : StreamPtrBodyRead(n)
    \/ StreamPtrExit

SpecStreamPtr == StreamPtrInit /\ [][StreamPtrNext]_vars

\* C30: StreamPtr(stream, offset=k).jump_to() places the stream at absolute
\* offset k inside the scope for every k >= 0, k = 0 with the stream at a
\* non-zero position included, and puts the stream back at its previous
\* position on normal exit.
C30_JumpToPlacesStreamAtOffset ==
    call.op = "ptr" =>
        /\ call.state = "entered" => pos = call.k
        /\ call.state = "exited" => pos = call.prev

====
